---- MODULE Spec2Model ----
(***************************************************************************)
(* fea::hfsm (include/fea_state_machines/hfsm.hpp): the hierarchical state *)
(* machine, its transition resolution and its event queue.                 *)
(*                                                                         *)
(* The machine checked here is one concrete hfsm built with the public     *)
(* builder calls:                                                          *)
(*                                                                         *)
(*   A (default)            B                  J                           *)
(*   |- A1 (default)                                                       *)
(*   |   |- A11 (default)                                                  *)
(*   |   |- A12                                                            *)
(*   |- A2                                                                 *)
(*       |- A21                                                            *)
(*                                                                         *)
(* Every state of it registers on_enter, on_update and on_exit.  User code *)
(* is nondeterministic: a guard predicate returns either value, and the    *)
(* callbacks written to call trigger<T> either call it or return.          *)
(*                                                                         *)
(* The machine runs alone (Spec) or with two parallel machines added by    *)
(* add_parallel_hfsm (SpecPar), each of two top-level states without       *)
(* substates: Q1 (default), Q2 and R1 (default), R2.  SpecEvent is one     *)
(* call of hfsm_state::execute_event on a state used on its own.           *)
(* SpecBuilder is an hfsm_state under construction, any sequence of        *)
(* add_transition, add_guard_transition and add_yield_transition calls.    *)
(* SpecFsm is the flat machine, fea::fsm, with the states walk, run and    *)
(* jump: any sequence of trigger, delayed_trigger, update and              *)
(* add_transition calls.                                                   *)
(***************************************************************************)
EXTENDS Integers, Sequences, FiniteSets, TLC

\* StateEnum::count / TransitionEnum::count, the sentinel of both enums.
count == "count"

\* The most trigger calls user callbacks make in one run.
MaxRetrig == 1

\* enum class state, in declaration order.
StateEnum ==
    <<"A", "A1", "A11", "A12", "A2", "A21", "B", "J", "Q1", "Q2", "R1", "R2">>

\* enum class transition, in declaration order.
TransitionEnum ==
    <<"do_a", "do_b", "do_jump", "yield", "do_sib", "do_mid", "do_up">>

States == {StateEnum[k] : k \in 1..Len(StateEnum)}

Transitions == {TransitionEnum[k] : k \in 1..Len(TransitionEnum)}

\* hfsm::_states, in add_state order; the first added is the default state.
TopStates == <<"A", "B", "J">>

default_state == TopStates[1]

\* hfsm_state::_substates, in add_substate order.
substates(s) ==
    CASE s = "A"  -> <<"A1", "A2">>
      [] s = "A1" -> <<"A11", "A12">>
      [] s = "A2" -> <<"A21">>
      [] OTHER    -> <<>>

\* _substate_indexes[s2] != max: s2 was added as a substate of s.
is_substate(s, s2) == \E k \in 1..Len(substates(s)) : substates(s)[k] = s2

\* hfsm_state::_default_substate: the first added substate.
default_substate(s) == IF substates(s) = <<>> THEN count ELSE substates(s)[1]

\* hfsm::_state_topmost_parents, filled by add_state from all_states(), of
\* the machine s was added to.
state_topmost_parents(s) ==
    CASE s \in {"A", "A1", "A11", "A12", "A2", "A21"} -> "A"
      [] s = "B" -> "B"
      [] s = "J" -> "J"
      [] s \in {"Q1", "Q2", "R1", "R2"} -> s
      [] OTHER -> count

\* hfsm_state::_transitions / _transition_exists (add_transition).
transitions(s, T) ==
    CASE s = "A"   /\ T = "do_b"    -> "B"
      [] s = "A"   /\ T = "do_jump" -> "J"
      [] s = "A"   /\ T = "do_sib"  -> "B"
      [] s = "A1"  /\ T = "do_mid"  -> "A12"
      [] s = "A1"  /\ T = "do_up"   -> "A2"
      [] s = "A11" /\ T = "do_sib"  -> "A12"
      [] s = "A12" /\ T = "do_sib"  -> "A11"
      [] s = "A12" /\ T = "do_up"   -> "A2"
      [] s = "A2"  /\ T = "do_sib"  -> "A1"
      [] s = "B"   /\ T = "do_a"    -> "A12"
      [] s = "B"   /\ T = "do_jump" -> "J"
      [] s = "Q1"  /\ T = "do_b"    -> "Q2"
      [] s = "Q2"  /\ T = "do_a"    -> "Q1"
      [] s = "R1"  /\ T = "do_b"    -> "R2"
      [] s = "R2"  /\ T = "do_a"    -> "R1"
      [] OTHER -> count

transition_exists(s, T) == transitions(s, T) # count

\* hfsm_state::_guard_transitions (add_guard_transition): the targets, in
\* the order of addition; each comes with a user predicate.
guard_transitions(s, T) ==
    CASE s = "A" /\ T = "do_b" -> <<"J", "A12">>
      [] s = "B" /\ T = "do_b" -> <<"A">>
      [] OTHER -> <<>>

guard_transition_exists(s, T) == guard_transitions(s, T) # <<>>

\* hfsm_state::_is_yield_transition (add_yield_transition).
is_yield_transition(s, T) ==
    \/ s = "J" /\ T = "yield"
    \/ s = "A12" /\ T = "do_b"

\* The add_auto_transition_guard<T> calls made on a state while the machine
\* was built, in the order they were made.
auto_transition_guard_calls(s) ==
    CASE s = "A"   -> <<"do_b">>
      [] s = "A11" -> <<"do_sib">>
      [] s = "B"   -> <<"do_jump", "do_a">>
      [] s = "Q1"  -> <<"do_b">>
      [] OTHER -> <<>>

\* hfsm_state::_auto_transition_guards (add_auto_transition_guard): how many
\* predicates the state registered for T; each call pushes one on the vector
\* of its transition.
auto_transition_guards(s, T) ==
    Cardinality({k \in 1..Len(auto_transition_guard_calls(s)) :
                     auto_transition_guard_calls(s)[k] = T})

\* hfsm_state::_simple_event_exists (add_event<on_enter/on_update/on_exit>).
simple_event_exists(s, ev) ==
    /\ s \in {"R1", "R2"} => ev # "on_exit"
    /\ s = "R2" => ev # "on_enter"

\* hfsm_state::_enter_from_exists (add_event<on_enter_from, from>).
enter_from_exists(s, from) ==
    \/ s = "A" /\ from = "J"
    \/ s = "B" /\ from = "A"

\* hfsm_state::_enter_from_calls_on_enter (call_general_event).
enter_from_calls_on_enter_flag(s, from) == s = "B" /\ from = "A"

\* hfsm_state::_exit_to_exists (add_event<on_exit_to, to>).
exit_to_exists(s, to) ==
    \/ s = "J" /\ to = "A"
    \/ s = "B" /\ to = "J"

\* hfsm_state::_exit_to_calls_on_exit (call_general_event).
exit_to_calls_on_exit_flag(s, to) == s = "B" /\ to = "J"

\* The states enable_parent_update() may have been called on.
ParentUpdateStates == {"A1", "A11"}

\* The user callbacks whose body calls trigger<T> under a condition of
\* their own: the callback cb of state s may call trigger for these T.
callback_triggers(s, cb) ==
    CASE s = "A11" /\ cb = "on_exit"   -> {"do_jump"}
      [] s = "A1"  /\ cb = "on_enter"  -> {"do_b"}
      [] s = "J"   /\ cb = "on_update" -> {"yield"}
      [] s = "B"   /\ cb = "on_update" -> {"do_sib"}
      [] OTHER -> {}

VARIABLES
    current_state,        \* hfsm::_current_state
    history_state,        \* hfsm::_history_state
    current_substate,     \* hfsm_state::_current_substate of every state
    transition_to_handle, \* hfsm::_transition_to_handle
    current_tranny_info,  \* hfsm::_current_tranny_info
    parent_update,        \* hfsm_state::_parent_update of every state
    update_events,        \* the event queue of the running execute_events
    idx,                  \* the loop index i of execute_events (from 1)
    pc,                   \* where the running call is
    call,                 \* the running (or last) update()/trigger() call
    log,                  \* the user callbacks that call has invoked
    trans,                \* the transitions that call has sequenced
    retrigs,              \* trigger calls made by user callbacks so far
    parallel_machines,    \* hfsm::_parallel_machines, in order of addition
    hfsm_state,           \* an hfsm_state the builder functions are called on
    fsm                   \* a flat fea::fsm and its states

vars ==
    <<current_state, history_state, current_substate, transition_to_handle,
      current_tranny_info, parent_update, update_events, idx, pc, call, log,
      trans, retrigs, parallel_machines, hfsm_state, fsm>>

\* A default-constructed tranny_info.
EmptyInfo ==
    [exit_hierarchy |-> <<>>, from |-> count, to |-> count, yield |-> FALSE,
     internal_transition |-> FALSE]

\* The members of hfsm a call reads and writes, as one value; thrown is set
\* when the call ends by throwing std::invalid_argument.
Machine ==
    [cs |-> current_state, hs |-> history_state, sub |-> current_substate,
     tth |-> transition_to_handle, ti |-> current_tranny_info,
     thrown |-> FALSE]

\* One user callback invocation: callback ev of state s, to_from_state x,
\* pre set for the generic callback invoked ahead of a specialized one.
\* Also, with ev = "trigger", one trigger<t> call made by the callback just
\* invoked; with ev = "auto_guard", one auto transition guard predicate of s
\* for t evaluated, x its result; with ev = "set_state" / "set_sub", the
\* queued change of the current state (to s) / of s's current substate.
LogEntry(ev, s, x, t, pre) == [ev |-> ev, s |-> s, x |-> x, t |-> t, pre |-> pre]

\* One std::function pushed on the event queue.
Event(kind, s, x, pre) == [kind |-> kind, s |-> s, x |-> x, pre |-> pre]

Last(q) == q[Len(q)]

Front(q) == SubSeq(q, 1, Len(q) - 1)

\* hfsm_state::init(): the state and its default descendants take their
\* default substate.
RECURSIVE init(_, _)
init(sub, s) ==
    LET sub1 == [sub EXCEPT ![s] = default_substate(s)]
    IN  IF sub1[s] # count THEN init(sub1, sub1[s]) ELSE sub1

\* hfsm_state::current_states, the non-const overload: the recursive calls
\* do not pass depth_first on.
RECURSIVE current_states(_, _, _)
current_states(sub, s, depth_first) ==
    LET below == IF sub[s] # count
                 THEN current_states(sub, sub[s], FALSE)
                 ELSE <<>>
    IN  IF depth_first THEN below \o <<s>> ELSE <<s>> \o below

\* hfsm_state::default_states, the non-const overload, depth_first = false.
RECURSIVE default_states(_)
default_states(s) ==
    <<s>> \o (IF default_substate(s) # count
              THEN default_states(default_substate(s))
              ELSE <<>>)

\* The guard predicates of the guarded transitions: every predicate a
\* resolution may evaluate, identified by state, transition and position.
GuardIds ==
    {<<s, T, k>> : s \in States, T \in Transitions, k \in 1..2} \cap
    {g \in States \X Transitions \X (1..2) :
        g[3] <= Len(guard_transitions(g[1], g[2]))}

\* What the guard predicates return in one resolution.
GuardVals == [GuardIds -> BOOLEAN]

\* The guard loop of lines 358-366 as it would be without its return: the
\* last guard whose predicate returns true wins.
last_true_guard(s, T, gv) ==
    LET hits == {k \in 1..Len(guard_transitions(s, T)) : gv[<<s, T, k>>]}
    IN  IF hits = {} THEN 0 ELSE CHOOSE k \in hits : \A j \in hits : j <= k

\* The first guard of s for T whose predicate returns true, 0 if none.
first_true_guard(s, T, gv) ==
    LET hits == {k \in 1..Len(guard_transitions(s, T)) : gv[<<s, T, k>>]}
    IN  IF hits = {} THEN 0 ELSE CHOOSE k \in hits : \A j \in hits : k <= j

\* Resolution as it would be if a state's own plain transition for T
\* replaced what its current substate resolved.
RECURSIVE transition_ancestor_overrides(_, _, _, _, _)
transition_ancestor_overrides(sub, s, T, tg, gv) ==
    LET tg1 == IF sub[s] # count
               THEN transition_ancestor_overrides(sub, sub[s], T, tg, gv)
               ELSE tg
        g == first_true_guard(s, T, gv)
    IN  IF transition_exists(s, T)
        THEN [tg1 EXCEPT !.from = s, !.to = transitions(s, T),
                         !.exit_hierarchy = Append(@, s)]
        ELSE IF tg1.yield
        THEN [tg1 EXCEPT !.exit_hierarchy = Append(@, s)]
        ELSE IF tg1.internal_transition
        THEN tg1
        ELSE IF tg1.to # count
        THEN IF is_substate(s, tg1.to)
             THEN [tg1 EXCEPT !.internal_transition = TRUE,
                              !.exit_hierarchy = Append(@, s)]
             ELSE tg1
        ELSE IF guard_transition_exists(s, T) /\ g # 0
        THEN [tg1 EXCEPT !.from = s, !.to = guard_transitions(s, T)[g],
                         !.exit_hierarchy = Append(@, s)]
        ELSE IF is_yield_transition(s, T)
        THEN [tg1 EXCEPT !.from = s, !.yield = TRUE,
                         !.exit_hierarchy = Append(@, s)]
        ELSE tg1

\* transition<T> as it would be without the return of lines 342-344: the
\* ancestors of the parent of an internal transition join the exit path.
RECURSIVE transition_internal_to_root(_, _, _, _, _)
transition_internal_to_root(sub, s, T, tg, gv) ==
    LET tg1 == IF sub[s] # count
               THEN transition_internal_to_root(sub, sub[s], T, tg, gv)
               ELSE tg
        g == first_true_guard(s, T, gv)
    IN  IF tg1.yield \/ tg1.internal_transition
        THEN [tg1 EXCEPT !.exit_hierarchy = Append(@, s)]
        ELSE IF tg1.to # count
        THEN IF is_substate(s, tg1.to)
             THEN [tg1 EXCEPT !.internal_transition = TRUE,
                              !.exit_hierarchy = Append(@, s)]
             ELSE tg1
        ELSE IF guard_transition_exists(s, T) /\ g # 0
        THEN [tg1 EXCEPT !.from = s, !.to = guard_transitions(s, T)[g],
                         !.exit_hierarchy = Append(@, s)]
        ELSE IF transition_exists(s, T)
        THEN [tg1 EXCEPT !.from = s, !.to = transitions(s, T),
                         !.exit_hierarchy = Append(@, s)]
        ELSE IF is_yield_transition(s, T)
        THEN [tg1 EXCEPT !.from = s, !.yield = TRUE,
                         !.exit_hierarchy = Append(@, s)]
        ELSE tg1

\* transition<T> as it would be without the return of line 339: a state
\* whose substate set yield joins the exit path and goes on to its own guards
\* and its own plain transition.
RECURSIVE transition_yield_without_return(_, _, _, _, _)
transition_yield_without_return(sub, s, T, tg, gv) ==
    LET tg0 == IF sub[s] # count
               THEN transition_yield_without_return(sub, sub[s], T, tg, gv)
               ELSE tg
        tg1 == IF tg0.yield
               THEN [tg0 EXCEPT !.exit_hierarchy = Append(@, s)]
               ELSE tg0
        g == first_true_guard(s, T, gv)
    IN  IF tg1.internal_transition
        THEN tg1
        ELSE IF tg1.to # count
        THEN IF is_substate(s, tg1.to)
             THEN [tg1 EXCEPT !.internal_transition = TRUE,
                              !.exit_hierarchy = Append(@, s)]
             ELSE tg1
        ELSE IF guard_transition_exists(s, T) /\ g # 0
        THEN [tg1 EXCEPT !.from = s, !.to = guard_transitions(s, T)[g],
                         !.exit_hierarchy =
                             IF tg0.yield THEN @ ELSE Append(@, s)]
        ELSE IF transition_exists(s, T)
        THEN [tg1 EXCEPT !.from = s, !.to = transitions(s, T),
                         !.exit_hierarchy =
                             IF tg0.yield THEN @ ELSE Append(@, s)]
        ELSE IF is_yield_transition(s, T) /\ ~tg0.yield
        THEN [tg1 EXCEPT !.from = s, !.yield = TRUE,
                         !.exit_hierarchy = Append(@, s)]
        ELSE tg1

\* hfsm_state::transition<T>: depth-first resolution of T into tg.
RECURSIVE transition(_, _, _, _, _)
transition(sub, s, T, tg, gv) ==
    LET tg1 == IF sub[s] # count
               THEN transition(sub, sub[s], T, tg, gv)
               ELSE tg
        g == first_true_guard(s, T, gv)
    IN  IF tg1.yield
        THEN [tg1 EXCEPT !.exit_hierarchy = Append(@, s)]
        ELSE IF tg1.internal_transition
        THEN tg1
        ELSE IF tg1.to # count
        THEN IF is_substate(s, tg1.to)
             THEN [tg1 EXCEPT !.internal_transition = TRUE,
                              !.exit_hierarchy = Append(@, s)]
             ELSE tg1
        ELSE IF guard_transition_exists(s, T) /\ g # 0
        THEN [tg1 EXCEPT !.from = s, !.to = guard_transitions(s, T)[g],
                         !.exit_hierarchy = Append(@, s)]
        ELSE IF transition_exists(s, T)
        THEN [tg1 EXCEPT !.from = s, !.to = transitions(s, T),
                         !.exit_hierarchy = Append(@, s)]
        ELSE IF is_yield_transition(s, T)
        THEN [tg1 EXCEPT !.from = s, !.yield = TRUE,
                         !.exit_hierarchy = Append(@, s)]
        ELSE tg1

\* trigger<T> as it would be without the check of lines 733-738: an
\* unresolved transition is left pending like a resolved one.
trigger_without_throw(m, T, gv) ==
    [m EXCEPT !.ti = transition(m.sub, m.cs, T, EmptyInfo, gv), !.tth = T]

\* trigger<T> as it would be without the reset of line 729: the resolution
\* starts from the descriptor the last trigger left.
trigger_without_reset(m, T, gv) ==
    LET ti == transition(m.sub, m.cs, T, m.ti, gv)
    IN  IF ti.to = count /\ ~ti.yield
        THEN [m EXCEPT !.ti = ti, !.thrown = TRUE]
        ELSE [m EXCEPT !.ti = ti, !.tth = T]

\* hfsm::trigger<T> on an initialized machine without parallel machines:
\* the descriptor is reset and resolved, then the call throws or leaves the
\* transition pending.
trigger(m, T, gv) ==
    LET ti == transition(m.sub, m.cs, T, EmptyInfo, gv)
    IN  IF ti.to = count /\ ~ti.yield
        THEN [m EXCEPT !.ti = ti, !.thrown = TRUE]
        ELSE [m EXCEPT !.ti = ti, !.tth = T]

\* The setter as it would be without the init() of line 1095: the substates
\* of the new current state stay as they were left.
set_current_state_without_init(m, state) ==
    [m EXCEPT !.hs = m.cs, !.cs = state]

\* The setter as it would be without line 1093: the history state is not
\* recorded.
set_current_state_without_history(m, state) ==
    [m EXCEPT !.cs = state, !.sub = init(m.sub, state)]

\* hfsm::current_state(StateEnum): the setter.
set_current_state(m, state) ==
    [m EXCEPT !.hs = m.cs, !.cs = state, !.sub = init(m.sub, state)]

\* enter_from_calls_on_enter as it would be if the flag were kept per state
\* rather than per state entered from.
enter_from_calls_on_enter_any_from(s, from) ==
    IF from = count
    THEN FALSE
    ELSE (\E f \in States : enter_from_calls_on_enter_flag(s, f))
         /\ simple_event_exists(s, "on_enter")

\* hfsm_state::enter_from_calls_on_enter.
enter_from_calls_on_enter(s, from) ==
    IF from = count
    THEN FALSE
    ELSE enter_from_calls_on_enter_flag(s, from)
         /\ simple_event_exists(s, "on_enter")

\* hfsm_state::exit_to_calls_on_exit.
exit_to_calls_on_exit(s, to) ==
    IF to = count
    THEN FALSE
    ELSE exit_to_calls_on_exit_flag(s, to) /\ simple_event_exists(s, "on_exit")

\* hfsm::enqueue_enter: the events pushed for states, in order.
RECURSIVE enqueue_enter(_, _)
enqueue_enter(states, to_from_state) ==
    IF states = <<>>
    THEN <<>>
    ELSE LET s == Head(states)
         IN  (IF enter_from_calls_on_enter(s, to_from_state)
              THEN <<Event("enter", s, count, TRUE)>>
              ELSE <<>>)
             \o <<Event("enter", s, to_from_state, FALSE)>>
             \o enqueue_enter(Tail(states), to_from_state)

\* hfsm::enqueue_exit: the events pushed for states, in order.
RECURSIVE enqueue_exit(_, _)
enqueue_exit(states, to_from_state) ==
    IF states = <<>>
    THEN <<>>
    ELSE LET s == Head(states)
         IN  (IF exit_to_calls_on_exit(s, to_from_state)
              THEN <<Event("exit", s, count, TRUE)>>
              ELSE <<>>)
             \o <<Event("exit", s, to_from_state, FALSE)>>
             \o enqueue_exit(Tail(states), to_from_state)

\* hfsm::enqueue_update: one event per state, in order.
enqueue_update(states) ==
    [k \in 1..Len(states) |-> Event("update", states[k], count, FALSE)]

\* execute_event as it would be if it looked at the generic callback first
\* and at the specialized ones only when none is registered.
execute_event_generic_first(s, ev, to_from_state) ==
    IF simple_event_exists(s, ev)
    THEN <<ev>>
    ELSE IF ev = "on_enter" /\ to_from_state # count
            /\ enter_from_exists(s, to_from_state)
    THEN <<"on_enter_from">>
    ELSE IF ev = "on_exit" /\ to_from_state # count
            /\ exit_to_exists(s, to_from_state)
    THEN <<"on_exit_to">>
    ELSE <<>>

\* hfsm_state::execute_event<Event>: the callback it invokes, none if the
\* state registered none.
execute_event(s, ev, to_from_state) ==
    IF ev = "on_enter"
    THEN IF to_from_state # count /\ enter_from_exists(s, to_from_state)
         THEN <<"on_enter_from">>
         ELSE IF simple_event_exists(s, "on_enter")
         THEN <<"on_enter">>
         ELSE <<>>
    ELSE IF ev = "on_exit"
    THEN IF to_from_state # count /\ exit_to_exists(s, to_from_state)
         THEN <<"on_exit_to">>
         ELSE IF simple_event_exists(s, "on_exit")
         THEN <<"on_exit">>
         ELSE <<>>
    ELSE IF simple_event_exists(s, "on_update")
         THEN <<"on_update">>
         ELSE <<>>

\* A user callback cb of state s runs: it is logged, and it calls
\* trigger<T> (T = choice) or returns without triggering (choice = count).
\* r is [m, lg, n]: the machine, the log, the trigger calls made.
run_callback(r, cbs, s, x, pre, choice, gv) ==
    IF cbs = <<>>
    THEN r
    ELSE LET lg1 == Append(r.lg, LogEntry(cbs[1], s, x, count, pre))
         IN  IF choice = count
             THEN [r EXCEPT !.lg = lg1]
             ELSE [m |-> trigger(r.m, choice, gv),
                   lg |-> Append(lg1, LogEntry("trigger", s, count, choice, FALSE)),
                   n |-> r.n + 1]

\* The auto transition guards of s as they would be walked if the state kept
\* them in one list for all transitions.
auto_guard_list_as_added(s, k) == auto_transition_guard_calls(s)

\* The auto transition guards of s in the order execute_auto_transition_guards
\* walks them: by transition index, then by order of addition.
RECURSIVE auto_guard_list(_, _)
auto_guard_list(s, k) ==
    IF k > Len(TransitionEnum)
    THEN <<>>
    ELSE [j \in 1..auto_transition_guards(s, TransitionEnum[k])
             |-> TransitionEnum[k]]
         \o auto_guard_list(s, k + 1)

\* execute_auto_transition_guards as it would be without the found flag and
\* the break of lines 913-914 and 924: the predicates behind the one that
\* returned true are evaluated as well.
execute_auto_transition_guards_without_found(r, s, ag, gv) ==
    LET guards == auto_guard_list(s, 1)
        evals == [j \in 1..Len(guards) |->
                     LogEntry("auto_guard", s,
                              IF j = ag THEN "true" ELSE "false",
                              guards[j], FALSE)]
    IN  IF ag = 0
        THEN [r EXCEPT !.lg = r.lg \o evals]
        ELSE [r EXCEPT !.lg = r.lg \o evals,
                       !.m = trigger(r.m, guards[ag], gv)]

\* hfsm::execute_auto_transition_guards for state s: the predicates before
\* position ag return false, the one at ag returns true and its transition
\* is triggered; ag = 0: every predicate returns false.
execute_auto_transition_guards(r, s, ag, gv) ==
    LET guards == auto_guard_list(s, 1)
        n == IF ag = 0 THEN Len(guards) ELSE ag
        evals == [j \in 1..n |->
                     LogEntry("auto_guard", s,
                              IF j = ag THEN "true" ELSE "false",
                              guards[j], FALSE)]
    IN  IF ag = 0
        THEN [r EXCEPT !.lg = r.lg \o evals]
        ELSE [r EXCEPT !.lg = r.lg \o evals,
                       !.m = trigger(r.m, guards[ag], gv)]

\* The lambda of enqueue_update as it would be without the return of lines
\* 869-871: on_update runs although a transition is pending.
update_event_without_return(r, s, ag, cb, gv) ==
    LET r1 == execute_auto_transition_guards(r, s, ag, gv)
    IN  IF r1.m.thrown
        THEN r1
        ELSE run_callback(r1, execute_event(s, "on_update", count), s, count,
                          FALSE, cb, gv)

\* The lambda enqueue_update queues for state s: the auto transition
\* guards, then on_update unless a transition is pending.
update_event(r, s, ag, cb, gv) ==
    LET r1 == execute_auto_transition_guards(r, s, ag, gv)
    IN  IF r1.m.thrown \/ r1.m.tth # count
        THEN r1
        ELSE run_callback(r1, execute_event(s, "on_update", count), s, count,
                          FALSE, cb, gv)

\* One queued event is invoked (execute_events, the std::invoke).
\* Enter and exit events run the callback execute_event selects; an update
\* event is the lambda of enqueue_update; the two state-change lambdas set
\* the current state (e.s: what _state_topmost_parents yields when e.x is the
\* sentinel) or the parent's current substate.
invoke(m, lg, e, ag, cb, gv) ==
    LET r == [m |-> m, lg |-> lg, n |-> 0]
    IN  IF e.kind = "enter"
        THEN run_callback(r, execute_event(e.s, "on_enter", e.x), e.s, e.x,
                          e.pre, cb, gv)
        ELSE IF e.kind = "exit"
        THEN run_callback(r, execute_event(e.s, "on_exit", e.x), e.s, e.x,
                          e.pre, cb, gv)
        ELSE IF e.kind = "update"
        THEN update_event(r, e.s, ag, cb, gv)
        ELSE IF e.kind = "set_state"
        THEN LET top == IF e.x = count
                        THEN e.s
                        ELSE state_topmost_parents(e.x)
             IN  [r EXCEPT !.m = set_current_state(m, top),
                           !.lg = Append(lg, LogEntry("set_state", top, e.x,
                                                      count, FALSE))]
        ELSE [r EXCEPT !.m.sub[e.s] = e.x,
                       !.lg = Append(lg, LogEntry("set_sub", e.s, e.x, count,
                                                  FALSE))]

\* execute_events after an event left a transition pending: the events that
\* replace the rest of the queue.  ub is the state read from
\* _state_topmost_parents[count] when the target is the sentinel.
sequence_events(m, ub) ==
    LET ti == m.ti
    IN  IF ti.internal_transition
        THEN enqueue_exit(Front(ti.exit_hierarchy), ti.to)
             \o <<Event("set_sub", Last(ti.exit_hierarchy), ti.to, FALSE)>>
             \o enqueue_enter(<<ti.to>>, ti.from)
        ELSE LET to == IF ti.yield THEN m.hs ELSE ti.to
                 top == IF to = count THEN ub ELSE state_topmost_parents(to)
             IN  enqueue_exit(current_states(m.sub, m.cs, TRUE), to)
                 \o <<Event("set_state", IF to = count THEN ub ELSE count, to,
                            FALSE)>>
                 \o enqueue_enter(default_states(top), ti.from)

\* execute_events as it would be without the erase of lines 940-941: the
\* events queued behind the one just invoked stay.
erase_nothing(events, i) == events

\* execute_events as it would be with an erase from begin + i + 2: the event
\* queued next survives.
erase_all_but_next(events, i) ==
    SubSeq(events, 1, IF i < Len(events) THEN i + 1 ELSE i)

\* update_events.erase(begin + i + 1, end): the events up to and including
\* the one just invoked stay.
erase_rest(events, i) == SubSeq(events, 1, i)

\* The record kept of a sequenced transition: the descriptor, and the
\* machine as it stood when the transition was sequenced.
TransEntry(m, T, at) ==
    [at |-> at, T |-> T, from |-> m.ti.from,
     to |-> IF m.ti.yield /\ ~m.ti.internal_transition THEN m.hs ELSE m.ti.to,
     yield |-> m.ti.yield, internal |-> m.ti.internal_transition,
     exit_hierarchy |-> m.ti.exit_hierarchy,
     cs |-> m.cs, hs |-> m.hs, sub |-> m.sub]

\* update(): the states whose update event is queued, in queue order.
update_states(sub, cs, pu) ==
    LET states == current_states(sub, cs, TRUE)
        stop == {k \in 1..Len(states) : ~pu[states[k]]}
        n == IF stop = {}
             THEN Len(states)
             ELSE CHOOSE k \in stop : \A j \in stop : k <= j
    IN  [k \in 1..n |-> states[n + 1 - k]]

\* No guard predicate returned true.
NoGuards == [g \in GuardIds |-> FALSE]

\* What the guard predicates may return in a resolution of T under the
\* top-level state cs: only the predicates registered for T on a state of
\* cs are evaluated, the others are not drawn.
GuardValsFor(T, cs) ==
    {gv \in GuardVals :
        \A g \in GuardIds :
            gv[g] => g[2] = T /\ state_topmost_parents(g[1]) = cs}

\* The transition an event's invocation triggers, given its choices.
triggered(e, ag, cb) ==
    IF cb # count THEN cb
    ELSE IF ag # 0 THEN auto_guard_list(e.s, 1)[ag]
    ELSE count

\* A machine after construction and add_state calls whose first added
\* state is d: nothing initialized, nothing pending.
new_hfsm(d) ==
    [cs |-> count, hs |-> count, sub |-> [s \in States |-> count],
     tth |-> count, ti |-> EmptyInfo, thrown |-> FALSE, default |-> d]

\* hfsm::_states of the parallel machine whose default state is d.
states_of(d) ==
    CASE d = "Q1" -> <<"Q1", "Q2">>
      [] d = "R1" -> <<"R1", "R2">>
      [] OTHER -> TopStates

\* The transition of machine m waits for sequencing without a target: the
\* read of _state_topmost_parents is out of bounds.
needs_ub(m) ==
    /\ m.tth # count /\ ~m.thrown /\ ~m.ti.internal_transition
    /\ (IF m.ti.yield THEN m.hs ELSE m.ti.to) = count

\* hfsm::execute_events of a parallel machine, from event i to the end of
\* the queue.  r is [m, lg, crashed]: the machine, the log, whether the
\* out-of-bounds read aborted the program.  ags[s] is what the auto
\* transition guards of s return (0: all false, k: the k-th is the first
\* true); ub is what an out-of-bounds read yields.  The callbacks of the
\* parallel machines do not call trigger.
RECURSIVE sub_execute_events(_, _, _, _, _)

\* The rest of one iteration of that loop, event i invoked with result r1:
\* a transition left pending replaces the rest of the queue by its events.
sub_sequence_events(r, r1, events, i, ags, ub) ==
    IF r1.m.thrown \/ r1.m.tth = count
    THEN sub_execute_events([r EXCEPT !.m = r1.m, !.lg = r1.lg],
                            events, i + 1, ags, ub)
    ELSE IF needs_ub(r1.m) /\ ub = "crash"
    THEN [r EXCEPT !.m = [r1.m EXCEPT !.tth = count], !.lg = r1.lg,
                   !.crashed = TRUE]
    ELSE sub_execute_events(
             [r EXCEPT
                  !.m = [r1.m EXCEPT
                             !.tth = count,
                             !.ti.to = IF r1.m.ti.yield
                                          /\ ~r1.m.ti.internal_transition
                                       THEN r1.m.hs ELSE r1.m.ti.to],
                  !.lg = r1.lg],
             erase_rest(events, i) \o sequence_events(r1.m, ub),
             i + 1, ags, ub)

sub_execute_events(r, events, i, ags, ub) ==
    IF i > Len(events) \/ r.m.thrown \/ r.crashed
    THEN r
    ELSE sub_sequence_events(
             r,
             invoke(r.m, r.lg, events[i],
                    IF events[i].kind = "update" THEN ags[events[i].s] ELSE 0,
                    count, NoGuards),
             events, i, ags, ub)

\* No auto transition guard returns true.
NoAuto == [s \in States |-> 0]

\* The end of maybe_init: the enter events of machine m, whose default
\* state was just made current, are queued and executed.
sub_init_events(m, lg) ==
    sub_execute_events(
        [m |-> m, lg |-> lg, crashed |-> FALSE],
        enqueue_enter(current_states(m.sub, m.cs, FALSE), count),
        1, NoAuto, count)

\* hfsm::maybe_init of a parallel machine p.
sub_maybe_init(p, lg) ==
    IF p.cs # count
    THEN [m |-> p, lg |-> lg, crashed |-> FALSE]
    ELSE sub_init_events(set_current_state(p, p.default), lg)

\* trigger<T> behind its maybe_init, whose result is r: T is resolved.
sub_resolve(r, T) == [r EXCEPT !.m = trigger(r.m, T, NoGuards)]

\* hfsm::trigger<T> of a parallel machine p, which has no parallel machines
\* of its own and no guarded transitions.
sub_trigger(p, lg, T) == sub_resolve(sub_maybe_init(p, lg), T)

\* The loop of lines 761-767: trigger<T> on the parallel machines from the
\* k-th on, in order; the first that throws ends the loop.
RECURSIVE trigger_parallel(_, _, _, _)

\* One iteration of that loop, trigger<T> of the k-th machine made with
\* result r.
trigger_parallel_step(pm, r, T, k) ==
    IF r.m.thrown
    THEN [pm |-> [pm EXCEPT ![k] = [r.m EXCEPT !.thrown = FALSE]],
          lg |-> r.lg, thrown |-> TRUE]
    ELSE trigger_parallel([pm EXCEPT ![k] = r.m], r.lg, T, k + 1)

trigger_parallel(pm, lg, T, k) ==
    IF k > Len(pm)
    THEN [pm |-> pm, lg |-> lg, thrown |-> FALSE]
    ELSE trigger_parallel_step(pm, sub_trigger(pm[k], lg, T), T, k)

\* update() behind its maybe_init, whose result is r: the update events
\* are queued and executed.
sub_update_events(r, pu, ags, ub) ==
    sub_execute_events(
        r, enqueue_update(update_states(r.m.sub, r.m.cs, pu)), 1, ags, ub)

\* hfsm::update of a parallel machine p.
sub_update(p, lg, pu, ags, ub) ==
    sub_update_events(sub_maybe_init(p, lg), pu, ags, ub)

\* The loop of lines 801-805: update() on the parallel machines from the
\* k-th on, in order.
RECURSIVE update_parallel(_, _, _, _, _, _)

\* One iteration of that loop, update() of the k-th machine made with
\* result r.
update_parallel_step(pm, r, pu, k, ags, ubs) ==
    IF r.crashed
    THEN [pm |-> [pm EXCEPT ![k] = r.m], lg |-> r.lg, crashed |-> TRUE]
    ELSE update_parallel([pm EXCEPT ![k] = r.m], r.lg, pu, k + 1, ags, ubs)

\* The loop of lines 801-805 as it would be if it ended after the first
\* parallel machine.
update_parallel_first_only(pm, lg, pu, k, ags, ubs) ==
    IF k > 1 \/ k > Len(pm)
    THEN [pm |-> pm, lg |-> lg, crashed |-> FALSE]
    ELSE update_parallel_step(pm, sub_update(pm[k], lg, pu, ags, ubs[k]),
                              pu, k, ags, ubs)

update_parallel(pm, lg, pu, k, ags, ubs) ==
    IF k > Len(pm)
    THEN [pm |-> pm, lg |-> lg, crashed |-> FALSE]
    ELSE update_parallel_step(pm, sub_update(pm[k], lg, pu, ags, ubs[k]),
                              pu, k, ags, ubs)

\* The trigger<T> the invocation of event e made, count if none: that of
\* an auto transition guard that returned true, or that of the callback.
forwarded(e, ag, cb, r) ==
    IF e.kind = "update" /\ ag # 0 THEN auto_guard_list(e.s, 1)[ag]
    ELSE IF r.n > 0 THEN cb
    ELSE count

\* trigger<T> of the primary machine, once T is resolved and pending (m):
\* the call is passed on to the parallel machines.
forward(m, lg, T) ==
    IF T = count \/ m.thrown
    THEN [pm |-> parallel_machines, lg |-> lg, thrown |-> FALSE]
    ELSE trigger_parallel(parallel_machines, lg, T, 1)

\* The states of the parallel machines whose auto transition guards the
\* next update() may evaluate: the current state of a machine, or its
\* default state if it is not initialized yet, if it has such guards.
SiblingGuardStates ==
    {s \in States :
         /\ auto_guard_list(s, 1) # <<>>
         /\ \E k \in 1..Len(parallel_machines) :
                parallel_machines[k].cs = s
                \/ /\ parallel_machines[k].cs = count
                   /\ parallel_machines[k].default = s}

\* What the auto transition guards of the parallel machines may return in
\* one update(): each state's first guard returns true, or none does.
SiblingAutoChoices ==
    {[s \in States |-> IF s \in F THEN 1 ELSE 0] :
         F \in SUBSET SiblingGuardStates}

\* What the out-of-bounds read of the k-th parallel machine may yield:
\* nothing where the machine has its target, else any of its states or the
\* end of the program.
SiblingUB(k) ==
    IF needs_ub(parallel_machines[k])
    THEN {states_of(parallel_machines[k].default)[j] :
              j \in 1..Len(states_of(parallel_machines[k].default))}
         \cup {"crash"}
    ELSE {count}

\* What the out-of-bounds reads of the parallel machines may yield in one
\* update().
SiblingUBChoices ==
    {ubs \in [1..Len(parallel_machines)
                 -> UNION {SiblingUB(k) : k \in 1..Len(parallel_machines)}] :
         \A k \in 1..Len(parallel_machines) : ubs[k] \in SiblingUB(k)}

(***************************************************************************)
(* The builder functions of hfsm_state that fill the transition tables.    *)
(* A table is a function of the transition; a call returns the state       *)
(* object it leaves and whether it threw std::invalid_argument.            *)
(***************************************************************************)

\* The most guard transitions the builder calls add for one transition.
MaxGuards == 2

\* A default-constructed hfsm_state: the arrays are value-initialized, so
\* that every entry of _transitions is the first enumerator of StateEnum.
new_hfsm_state ==
    [transitions |-> [T \in Transitions |-> StateEnum[1]],
     transition_exists |-> [T \in Transitions |-> FALSE],
     guard_transitions |-> [T \in Transitions |-> <<>>],
     guard_transition_exists |-> [T \in Transitions |-> FALSE],
     is_yield_transition |-> [T \in Transitions |-> FALSE]]

\* add_transition as it would be without its second check: a transition
\* declared yield is accepted as a plain transition as well.
add_transition_over_yield(st, T, S) ==
    IF st.transition_exists[T]
    THEN [st |-> st, thrown |-> TRUE]
    ELSE [st |-> [st EXCEPT !.transitions[T] = S,
                            !.transition_exists[T] = TRUE],
          thrown |-> FALSE]

\* hfsm_state::add_transition<T, S>().
add_transition(st, T, S) ==
    IF st.transition_exists[T]
    THEN [st |-> st, thrown |-> TRUE]
    ELSE IF st.is_yield_transition[T]
    THEN [st |-> st, thrown |-> TRUE]
    ELSE [st |-> [st EXCEPT !.transitions[T] = S,
                            !.transition_exists[T] = TRUE],
          thrown |-> FALSE]

\* hfsm_state::add_guard_transition<T, S>(func).
add_guard_transition(st, T, S) ==
    [st |-> [st EXCEPT !.guard_transitions[T] = Append(@, S),
                       !.guard_transition_exists[T] = TRUE],
     thrown |-> FALSE]

\* hfsm_state::add_yield_transition<T>().
add_yield_transition(st, T) ==
    IF st.is_yield_transition[T]
    THEN [st |-> st, thrown |-> TRUE]
    ELSE IF st.transition_exists[T]
    THEN [st |-> st, thrown |-> TRUE]
    ELSE [st |-> [st EXCEPT !.is_yield_transition[T] = TRUE],
          thrown |-> FALSE]

(***************************************************************************)
(* The flat machine, fea::fsm, with three states and three transitions as  *)
(* in its tests.  A call of trigger or update runs to its end in one step, *)
(* the callbacks it invokes and the calls they make included: a run r      *)
(* holds the machine f, the log lg, what the callbacks still to be invoked *)
(* will do (sc), the number n of trigger calls that got past their first   *)
(* check, and whether std::invalid_argument is on its way to the caller.   *)
(***************************************************************************)

\* The callbacks of one call that may do more than return: its first ones.
MaxCallbackCalls == 2

FsmStateEnum == <<"walk", "run", "jump">>
FsmTransitionEnum == <<"do_walk", "do_run", "do_jump">>
FsmStates == {FsmStateEnum[k] : k \in 1..Len(FsmStateEnum)}
FsmTransitions == {FsmTransitionEnum[k] : k \in 1..Len(FsmTransitionEnum)}

\* fsm_state::_transitions of each state when it is added to the machine.
fsm_transitions(s, T) ==
    CASE s = "walk" /\ T = "do_run"  -> "run"
      [] s = "run"  /\ T = "do_walk" -> "walk"
      [] s = "run"  /\ T = "do_jump" -> "jump"
      [] s = "jump" /\ T = "do_walk" -> "walk"
      [] s = "jump" /\ T = "do_run"  -> "run"
      [] OTHER -> count

\* Whether _on_enter_func, _on_update_func, _on_exit_func of s is set.
fsm_func(s, ev) ==
    CASE ev = "on_enter"  -> s \in {"walk"}
      [] ev = "on_update" -> s \in {"walk", "run"}
      [] ev = "on_exit"   -> s \in {"run"}
      [] OTHER -> FALSE

\* Whether _on_enter_from_funcs[x] of s is set.
on_enter_from_funcs(s, x) ==
    <<s, x>> \in {<<"walk", "run">>, <<"run", "walk">>, <<"jump", "run">>}

\* Whether _on_exit_to_funcs[x] of s is set.
on_exit_to_funcs(s, x) ==
    <<s, x>> \in {<<"run", "jump">>, <<"jump", "walk">>}

\* A machine after its three add_state calls: walk, added first, is the
\* default state.
new_fsm ==
    [states |-> [s \in FsmStates |->
                    [T \in FsmTransitions |-> fsm_transitions(s, T)]],
     current_state |-> count,
     default_state |-> FsmStateEnum[1],
     in_on_exit |-> FALSE,
     delayed_trigger_func |-> count,
     has_delayed_trigger |-> FALSE]

\* What a callback does: it returns, or calls trigger<T> or
\* delayed_trigger<T> on the machine and returns.
Return == <<"return", count>>
CallbackActions ==
    {Return} \cup {<<"trigger", T>> : T \in FsmTransitions}
             \cup {<<"delayed_trigger", T>> : T \in FsmTransitions}

RECURSIVE ScriptsOfLen(_)
ScriptsOfLen(n) ==
    IF n = 0 THEN {<<>>}
    ELSE {Append(sc, a) : sc \in ScriptsOfLen(n - 1), a \in CallbackActions}

\* What the first callbacks of one call do, in the order of their
\* invocation; the callbacks invoked after these return.
Scripts == ScriptsOfLen(MaxCallbackCalls)

\* A log entry of the flat machine: callback ev of state s with from or to
\* state x, invoked by trigger call number by (0: by update or by the
\* initialization); did is what the callback does, hd whether a delayed
\* trigger was pending when the entry was made.
FsmEntry(ev, s, x, by, did, f) ==
    [ev |-> ev, s |-> s, x |-> x, by |-> by, did |-> did,
     hd |-> f.has_delayed_trigger]

\* The run a call starts with.
NewRun(f, sc) == [f |-> f, lg |-> <<>>, sc |-> sc, n |-> 0, thrown |-> FALSE]

\* fsm_state::add_transition<T, to>() on state s of the machine.
fsm_state_add_transition(f, s, T, to) == [f EXCEPT !.states[s][T] = to]

\* fsm_state::transition_target<T>() of state s: count stands for the
\* throw.
transition_target(f, s, T) == f.states[s][T]

\* fsm_state::execute_event<ev>(x, machine): the callback it invokes.
fsm_execute_event(s, ev, x) ==
    IF ev = "on_enter"
    THEN IF x # count /\ on_enter_from_funcs(s, x) THEN <<"on_enter_from">>
         ELSE IF fsm_func(s, "on_enter") THEN <<"on_enter">>
         ELSE <<>>
    ELSE IF ev = "on_update"
    THEN IF fsm_func(s, "on_update") THEN <<"on_update">> ELSE <<>>
    ELSE IF x # count /\ on_exit_to_funcs(s, x) THEN <<"on_exit_to">>
         ELSE IF fsm_func(s, "on_exit") THEN <<"on_exit">>
         ELSE <<>>

\* fsm::delayed_trigger<T>().
delayed_trigger(r, T) ==
    IF r.f.has_delayed_trigger
    THEN [r EXCEPT
            !.lg = Append(@, FsmEntry("delayed_trigger", r.f.current_state,
                                      T, 0, Return, r.f))]
    ELSE [r EXCEPT
            !.lg = Append(@, FsmEntry("delayed_trigger", r.f.current_state,
                                      T, 0, Return, r.f)),
            !.f.has_delayed_trigger = TRUE,
            !.f.delayed_trigger_func = T]

RECURSIVE fsm_trigger(_, _)

\* The body of a callback: what it does is act.
fsm_callback_body(r, act) ==
    IF act[1] = "trigger" THEN fsm_trigger(r, act[2])
    ELSE IF act[1] = "delayed_trigger" THEN delayed_trigger(r, act[2])
    ELSE r

\* std::invoke of callback cb of state s, by trigger call number by.
fsm_callback(r, cb, s, x, by, act) ==
    fsm_callback_body(
        [r EXCEPT !.lg = Append(@, FsmEntry(cb, s, x, by, act, r.f)),
                  !.sc = IF @ = <<>> THEN <<>> ELSE Tail(@)],
        act)

\* _states[s].execute_event<ev>(x, *this), by trigger call number by.
fsm_invoke(r, s, ev, x, by) ==
    IF fsm_execute_event(s, ev, x) = <<>>
    THEN r
    ELSE fsm_callback(r, fsm_execute_event(s, ev, x)[1], s, x, by,
                      IF r.sc = <<>> THEN Return ELSE Head(r.sc))

\* fsm::maybe_init, by trigger call number by.
fsm_maybe_init(r, by) ==
    IF r.f.current_state # count
    THEN r
    ELSE fsm_invoke(
             [r EXCEPT
                !.f.current_state = r.f.default_state,
                !.lg = Append(@, FsmEntry("init", r.f.default_state, count,
                                          by, Return, r.f))],
             r.f.default_state, "on_enter", count, by)

\* fsm::trigger from line 244: the state changes, on_enter is executed.
fsm_trigger_enter(r, from, to, id) ==
    fsm_invoke(
        [r EXCEPT
           !.f.in_on_exit = FALSE,
           !.f.current_state = to,
           !.lg = Append(@, FsmEntry("set_state", to, from, id, Return,
                                     r.f))],
        to, "on_enter", from, id)

\* fsm_trigger_exited as it would be without the check of line 239: the
\* trigger goes on after a transition made by the exit callback.
fsm_trigger_exited_no_abort(r, from, to, id) ==
    IF r.thrown THEN r ELSE fsm_trigger_enter(r, from, to, id)

\* fsm::trigger from line 239, on_exit executed with result r.
fsm_trigger_exited(r, from, to, id) ==
    IF r.thrown THEN r
    ELSE IF ~r.f.in_on_exit THEN r
    ELSE fsm_trigger_enter(r, from, to, id)

\* fsm::trigger from line 232, the target resolved.
fsm_trigger_exit(r, from, to, id) ==
    IF ~r.f.in_on_exit
    THEN fsm_trigger_exited(
             fsm_invoke([r EXCEPT !.f.in_on_exit = TRUE],
                        from, "on_exit", to, id),
             from, to, id)
    ELSE fsm_trigger_enter(r, from, to, id)

\* fsm_trigger_from as it would be if the target were resolved after the
\* exit callback: an unhandled transition throws when the callback returned.
fsm_trigger_from_exit_first(r, T, id) ==
    IF r.thrown THEN r
    ELSE IF transition_target(r.f, r.f.current_state, T) = count
    THEN [fsm_invoke(r, r.f.current_state, "on_exit", count, id)
             EXCEPT !.thrown = TRUE]
    ELSE fsm_trigger_exit(r, r.f.current_state,
                          transition_target(r.f, r.f.current_state, T), id)

\* fsm::trigger from line 227, maybe_init done with result r: the target
\* is resolved, or transition_target throws.
fsm_trigger_from(r, T, id) ==
    IF r.thrown THEN r
    ELSE IF transition_target(r.f, r.f.current_state, T) = count
    THEN [r EXCEPT !.thrown = TRUE]
    ELSE fsm_trigger_exit(r, r.f.current_state,
                          transition_target(r.f, r.f.current_state, T), id)

\* fsm::trigger<T>().
fsm_trigger(r, T) ==
    IF r.f.has_delayed_trigger
    THEN [r EXCEPT
            !.lg = Append(@, FsmEntry("trigger", r.f.current_state, T, 0,
                                      Return, r.f))]
    ELSE fsm_trigger_from(
             fsm_maybe_init(
                 [r EXCEPT
                    !.n = r.n + 1,
                    !.lg = Append(@, FsmEntry("trigger", r.f.current_state,
                                              T, r.n + 1, Return, r.f))],
                 r.n + 1),
             T, r.n + 1)

\* The loop of fsm::update as it would be with if in place of while: a
\* delayed trigger raised by the delayed transition stays pending.
fsm_update_delayed_once(r) ==
    IF r.thrown \/ ~r.f.has_delayed_trigger
    THEN r
    ELSE fsm_trigger([r EXCEPT !.f.has_delayed_trigger = FALSE],
                     r.f.delayed_trigger_func)

\* The while loop of fsm::update: the delayed trigger function is invoked
\* as long as a delayed trigger is pending.
RECURSIVE fsm_update_delayed(_)
fsm_update_delayed(r) ==
    IF r.thrown \/ ~r.f.has_delayed_trigger
    THEN r
    ELSE fsm_update_delayed(
             fsm_trigger([r EXCEPT !.f.has_delayed_trigger = FALSE],
                         r.f.delayed_trigger_func))

\* fsm::update from line 263, maybe_init done with result r.
fsm_update_event(r) ==
    IF r.thrown THEN r
    ELSE fsm_invoke(r, r.f.current_state, "on_update", count, 0)

\* fsm::update from line 261, the loop done with result r.
fsm_update_init(r) ==
    IF r.thrown THEN r ELSE fsm_update_event(fsm_maybe_init(r, 0))

\* fsm::update().
fsm_update(r) == fsm_update_init(fsm_update_delayed(r))

\* The state after construction and the builder calls: nothing initialized,
\* nothing pending; enable_parent_update() was called on some states.
Init ==
    /\ current_state = count
    /\ history_state = count
    /\ current_substate = [s \in States |-> count]
    /\ transition_to_handle = count
    /\ current_tranny_info = EmptyInfo
    /\ parent_update \in
           {[s \in States |-> s \in P] : P \in SUBSET ParentUpdateStates}
    /\ update_events = <<>>
    /\ idx = 0
    /\ pc = "idle"
    /\ call = [op |-> "none", T |-> count, pend |-> count, ti |-> EmptyInfo,
               init |-> FALSE, thrown |-> FALSE, gv |-> NoGuards]
    /\ log = <<>>
    /\ trans = <<>>
    /\ retrigs = 0
    /\ parallel_machines = <<>>
    /\ hfsm_state = new_hfsm_state
    /\ fsm = new_fsm

\* The machine members take the values of m.
SetMachine(m) ==
    /\ current_state' = m.cs
    /\ history_state' = m.hs
    /\ current_substate' = m.sub
    /\ transition_to_handle' = m.tth
    /\ current_tranny_info' = m.ti

\* A call of update() or trigger<T>() from outside any callback begins.
\* The record keeps what was pending when it began and, for a trigger,
\* what the guard predicates of its resolution returned.
NewCall(op, T) ==
    [op |-> op, T |-> T, pend |-> transition_to_handle,
     ti |-> current_tranny_info, init |-> current_state # count,
     thrown |-> FALSE, gv |-> NoGuards]

\* maybe_init as it would be if it queued the enter events with the default
\* state as the state entered from.
maybe_init_enter_from_default ==
    LET m == set_current_state(Machine, default_state)
    IN  /\ SetMachine(m)
        /\ update_events' =
               enqueue_enter(current_states(m.sub, m.cs, FALSE), default_state)
        /\ idx' = 1

\* hfsm::maybe_init on an uninitialized machine, up to its execute_events:
\* the default state becomes current and its enter events are queued.
maybe_init ==
    LET m == set_current_state(Machine, default_state)
    IN  /\ SetMachine(m)
        /\ update_events' =
               enqueue_enter(current_states(m.sub, m.cs, FALSE), count)
        /\ idx' = 1

\* The callback an event invokes, if it gets that far.
event_callback(e) ==
    IF e.kind = "enter" THEN execute_event(e.s, "on_enter", e.x)
    ELSE IF e.kind = "exit" THEN execute_event(e.s, "on_exit", e.x)
    ELSE IF e.kind = "update" THEN execute_event(e.s, "on_update", count)
    ELSE <<>>

\* What the callback an event invokes may do: return (count), or call
\* trigger<T>.
CallbackChoices(e) ==
    IF retrigs < MaxRetrig /\ event_callback(e) # <<>>
    THEN callback_triggers(e.s, event_callback(e)[1]) \cup {count}
    ELSE {count}

\* What an update event's auto transition guards may return.
AutoChoices(e) ==
    IF e.kind = "update" THEN 0..Len(auto_guard_list(e.s, 1)) ELSE {0}

\* Reading _state_topmost_parents[size_t(StateEnum::count)] is out of
\* bounds: the build may abort or yield any state.
UBChoices(m) ==
    IF m.tth # count /\ ~m.thrown /\ ~m.ti.internal_transition
       /\ (IF m.ti.yield THEN m.hs ELSE m.ti.to) = count
    THEN {TopStates[k] : k \in 1..Len(TopStates)} \cup {"crash"}
    ELSE {count}

\* The transitions the caller triggers.
TriggerInputs == Transitions

\* update() is called from outside any callback.
update ==
    /\ pc = "idle"
    /\ call' = NewCall("update", count)
    /\ log' = <<>>
    /\ trans' = <<>>
    /\ IF current_state = count
       THEN /\ maybe_init
            /\ pc' = "init_update"
       ELSE /\ update_events' = enqueue_update(
                   update_states(current_substate, current_state, parent_update))
            /\ idx' = 1
            /\ pc' = "update"
            /\ UNCHANGED <<current_state, history_state, current_substate,
                           transition_to_handle, current_tranny_info>>
    /\ UNCHANGED <<parent_update, retrigs, parallel_machines, hfsm_state,
                   fsm>>

\* trigger<T> of the primary machine behind the loop of lines 761-767,
\* whose result is fw: the call c returns or throws.
trigger_forwarded(m, fw, c) ==
    /\ SetMachine(m)
    /\ call' = [c EXCEPT !.thrown = m.thrown \/ fw.thrown]
    /\ log' = fw.lg
    /\ parallel_machines' = fw.pm

\* trigger<T> of the primary machine behind the resolution of T, whose
\* result is m: the call is passed on to the parallel machines.
trigger_resolved(m, lg, T, c) == trigger_forwarded(m, forward(m, lg, T), c)

\* trigger<T>() is called from outside any callback.
trigger_call ==
    /\ pc = "idle"
    /\ \E T \in TriggerInputs :
        /\ trans' = <<>>
        /\ IF current_state = count
           THEN /\ maybe_init
                /\ call' = NewCall("trigger", T)
                /\ pc' = "init_trigger"
                /\ log' = <<>>
                /\ UNCHANGED parallel_machines
           ELSE /\ \E gv \in GuardValsFor(T, current_state) :
                    trigger_resolved(trigger(Machine, T, gv), <<>>, T,
                                     [NewCall("trigger", T) EXCEPT !.gv = gv])
                /\ update_events' = <<>>
                /\ idx' = 0
                /\ pc' = "idle"
    /\ UNCHANGED <<parent_update, retrigs, hfsm_state, fsm>>

\* The rest of one iteration of the loop of execute_events, the event at idx
\* invoked with result r and the trigger it made, if any, passed on to the
\* parallel machines with result fw.
event_forwarded(m, lg, n, fw) ==
    \E ub \in UBChoices(m) :
        /\ log' = fw.lg
        /\ parallel_machines' = fw.pm
        /\ retrigs' = retrigs + n
        /\ IF m.thrown \/ fw.thrown
           THEN /\ SetMachine(m)
                /\ update_events' = <<>>
                /\ idx' = 0
                /\ pc' = "idle"
                /\ call' = [call EXCEPT !.thrown = TRUE]
                /\ trans' = trans
           ELSE IF m.tth = count
           THEN /\ SetMachine(m)
                /\ idx' = idx + 1
                /\ UNCHANGED <<update_events, pc, call, trans>>
           ELSE IF ub = "crash"
           THEN /\ SetMachine([m EXCEPT !.tth = count])
                /\ pc' = "crashed"
                /\ UNCHANGED <<update_events, idx, call, trans>>
           ELSE /\ SetMachine([m EXCEPT
                       !.tth = count,
                       !.ti.to = IF m.ti.yield /\ ~m.ti.internal_transition
                                 THEN m.hs ELSE m.ti.to])
                /\ update_events' =
                       erase_rest(update_events, idx)
                       \o sequence_events(m, ub)
                /\ idx' = idx + 1
                /\ trans' = Append(trans, TransEntry(m, m.tth, Len(lg)))
                /\ UNCHANGED <<pc, call>>

\* The event e at idx was invoked with result r: a trigger<T> it made is
\* passed on to the parallel machines.
event_invoked(r, e, ag, cb) ==
    event_forwarded(r.m, r.lg, r.n,
                    forward(r.m, r.lg, forwarded(e, ag, cb, r)))

\* One iteration of the loop of execute_events: the event at idx is invoked;
\* if that leaves a transition pending, the rest of the queue is erased and
\* the transition's events are queued.  A trigger made by the event is
\* passed on to the parallel machines; one that throws ends the call.
execute_events ==
    /\ pc \in {"init_update", "init_trigger", "update"}
    /\ idx <= Len(update_events)
    /\ \E ag \in AutoChoices(update_events[idx]),
          cb \in CallbackChoices(update_events[idx]) :
        \E gv \in GuardValsFor(triggered(update_events[idx], ag, cb),
                                current_state) :
        event_invoked(invoke(Machine, log, update_events[idx], ag, cb, gv),
                      update_events[idx], ag, cb)
    /\ UNCHANGED <<parent_update, hfsm_state, fsm>>

\* update(), after maybe_init returned: the update events are queued.
update_after_init ==
    /\ pc = "init_update"
    /\ idx > Len(update_events)
    /\ update_events' = enqueue_update(
           update_states(current_substate, current_state, parent_update))
    /\ idx' = 1
    /\ pc' = "update"
    /\ UNCHANGED <<current_state, history_state, current_substate,
                   transition_to_handle, current_tranny_info, parent_update,
                   call, log, trans, retrigs, parallel_machines, hfsm_state,
                   fsm>>

\* trigger<T>(), after maybe_init returned: T is resolved.
trigger_after_init ==
    /\ pc = "init_trigger"
    /\ idx > Len(update_events)
    /\ \E gv \in GuardValsFor(call.T, current_state) :
        trigger_resolved(trigger(Machine, call.T, gv), log, call.T,
                         [call EXCEPT !.gv = gv])
    /\ update_events' = <<>>
    /\ idx' = 0
    /\ pc' = "idle"
    /\ UNCHANGED <<parent_update, trans, retrigs, hfsm_state, fsm>>

\* The transitions of the auto transition guards that returned true
\* between positions from and Len(lg) of the log.
RECURSIVE fired_guards(_, _)
fired_guards(lg, from) ==
    IF from > Len(lg)
    THEN <<>>
    ELSE (IF lg[from].ev = "auto_guard" /\ lg[from].x = "true"
          THEN <<lg[from].t>> ELSE <<>>)
         \o fired_guards(lg, from + 1)

\* The parallel machines were updated with result u, and the last transition
\* an auto transition guard of theirs triggered is pending on the primary
\* machine as well.
guards_on_primary(u) ==
    /\ parallel_machines' = u.pm
    /\ log' = u.lg
    /\ pc' = IF u.crashed THEN "crashed" ELSE "idle"
    /\ transition_to_handle' =
           IF fired_guards(u.lg, Len(log) + 1) = <<>>
           THEN transition_to_handle
           ELSE Last(fired_guards(u.lg, Len(log) + 1))

\* update_return as it would be if the auto transition guards of the
\* parallel machines triggered on the primary machine as well: the last
\* transition so triggered stays pending there.
update_return_guard_on_primary ==
    /\ pc = "update"
    /\ idx > Len(update_events)
    /\ \E ags \in SiblingAutoChoices, ubs \in SiblingUBChoices :
           guards_on_primary(update_parallel(parallel_machines, log,
                                             parent_update, 1, ags, ubs))
    /\ update_events' = <<>>
    /\ idx' = 0
    /\ UNCHANGED <<current_state, history_state, current_substate,
                   current_tranny_info, parent_update,
                   call, trans, retrigs, hfsm_state, fsm>>

\* The parallel machines were updated with result u: update() returns, or
\* the program was aborted.
siblings_updated(u) ==
    /\ parallel_machines' = u.pm
    /\ log' = u.lg
    /\ pc' = IF u.crashed THEN "crashed" ELSE "idle"

\* execute_events ran the queue of update() to its end: the parallel
\* machines are updated, then update() returns.
update_return ==
    /\ pc = "update"
    /\ idx > Len(update_events)
    /\ \E ags \in SiblingAutoChoices, ubs \in SiblingUBChoices :
           siblings_updated(update_parallel(parallel_machines, log,
                                            parent_update, 1, ags, ubs))
    /\ update_events' = <<>>
    /\ idx' = 0
    /\ UNCHANGED <<current_state, history_state, current_substate,
                   transition_to_handle, current_tranny_info, parent_update,
                   call, trans, retrigs, hfsm_state, fsm>>

Next ==
    \/ update
    \/ trigger_call
    \/ execute_events
    \/ update_after_init
    \/ trigger_after_init
    \/ update_return

Spec == Init /\ [][Next]_vars

\* The state after construction, the builder calls and two calls of
\* add_parallel_hfsm: the machine with the parallel machines of Q1 and R1,
\* parent updates enabled on A1 and A11.
InitPar ==
    /\ current_state = count
    /\ history_state = count
    /\ current_substate = [s \in States |-> count]
    /\ transition_to_handle = count
    /\ current_tranny_info = EmptyInfo
    /\ parent_update = [s \in States |-> s \in ParentUpdateStates]
    /\ update_events = <<>>
    /\ idx = 0
    /\ pc = "idle"
    /\ call = [op |-> "none", T |-> count, pend |-> count, ti |-> EmptyInfo,
               init |-> FALSE, thrown |-> FALSE, gv |-> NoGuards]
    /\ log = <<>>
    /\ trans = <<>>
    /\ retrigs = 0
    /\ parallel_machines = <<new_hfsm("Q1"), new_hfsm("R1")>>
    /\ hfsm_state = new_hfsm_state
    /\ fsm = new_fsm

SpecPar == InitPar /\ [][Next]_vars

\* The hfsm_event a queued event of the given kind stands for.
hfsm_event(kind) ==
    CASE kind = "enter" -> "on_enter"
      [] kind = "exit" -> "on_exit"
      [] OTHER -> "on_update"

\* A state object used on its own, as the tests do: one call
\* s.execute_event<Event>(to_from_state, machine) is about to be made, for
\* any state, any of the three events and any to_from_state, the sentinel
\* included.  update_events[1] holds the arguments.
InitEvent ==
    /\ current_state = count
    /\ history_state = count
    /\ current_substate = [s \in States |-> count]
    /\ transition_to_handle = count
    /\ current_tranny_info = EmptyInfo
    /\ parent_update = [s \in States |-> FALSE]
    /\ update_events \in
           {<<Event(kind, s, x, FALSE)>> :
                kind \in {"enter", "exit", "update"},
                s \in States, x \in States \cup {count}}
    /\ idx = 1
    /\ pc = "execute_event"
    /\ call = [op |-> "none", T |-> count, pend |-> count, ti |-> EmptyInfo,
               init |-> FALSE, thrown |-> FALSE, gv |-> NoGuards]
    /\ log = <<>>
    /\ trans = <<>>
    /\ retrigs = 0
    /\ parallel_machines = <<>>
    /\ hfsm_state = new_hfsm_state
    /\ fsm = new_fsm

\* The call of execute_event is made; the callback it invokes returns.
execute_event_call ==
    /\ pc = "execute_event"
    /\ idx = 1
    /\ LET e == update_events[1]
           r == run_callback([m |-> Machine, lg |-> log, n |-> 0],
                             execute_event(e.s, hfsm_event(e.kind), e.x),
                             e.s, e.x, FALSE, count, NoGuards)
       IN  log' = r.lg
    /\ idx' = 2
    /\ UNCHANGED <<current_state, history_state, current_substate,
                   transition_to_handle, current_tranny_info, parent_update,
                   update_events, pc, call, trans, retrigs,
                   parallel_machines, hfsm_state, fsm>>

SpecEvent == InitEvent /\ [][execute_event_call]_vars

\* The members of the hfsm and what is recorded of its calls, but for call
\* and log.
machine_vars ==
    <<current_state, history_state, current_substate, transition_to_handle,
      current_tranny_info, parent_update, update_events, idx, pc, trans,
      retrigs, parallel_machines>>

\* A default-constructed hfsm, an hfsm_state and a flat machine that no call
\* was made on yet.
InitObjects ==
    /\ current_state = count
    /\ history_state = count
    /\ current_substate = [s \in States |-> count]
    /\ transition_to_handle = count
    /\ current_tranny_info = EmptyInfo
    /\ parent_update = [s \in States |-> FALSE]
    /\ update_events = <<>>
    /\ idx = 0
    /\ pc = "idle"
    /\ call = [op |-> "none", T |-> count, thrown |-> FALSE]
    /\ log = <<>>
    /\ trans = <<>>
    /\ retrigs = 0
    /\ parallel_machines = <<>>
    /\ hfsm_state = new_hfsm_state
    /\ fsm = new_fsm

\* The transitions and target states the builder functions are called with.
BuilderTransitions == {"do_a", "do_b"}
BuilderTargets == {"A", "B"}

\* A builder function called with T and S returned or threw, with result r;
\* call keeps the state object as it was before.
builder_returns(op, T, S, r) ==
    /\ hfsm_state' = r.st
    /\ call' = [op |-> op, T |-> T, S |-> S, thrown |-> r.thrown,
                before |-> hfsm_state]
    /\ UNCHANGED <<machine_vars, log, fsm>>

\* A call of add_transition<T, S>() on the state object.
add_transition_call ==
    \E T \in BuilderTransitions, S \in BuilderTargets :
        builder_returns("add_transition", T, S,
                        add_transition(hfsm_state, T, S))

\* A call of add_guard_transition<T, S>(func) on the state object.
add_guard_transition_call ==
    \E T \in BuilderTransitions, S \in BuilderTargets :
        /\ Len(hfsm_state.guard_transitions[T]) < MaxGuards
        /\ builder_returns("add_guard_transition", T, S,
                           add_guard_transition(hfsm_state, T, S))

\* A call of add_yield_transition<T>() on the state object.
add_yield_transition_call ==
    \E T \in BuilderTransitions :
        builder_returns("add_yield_transition", T, count,
                        add_yield_transition(hfsm_state, T))

NextBuilder ==
    \/ add_transition_call
    \/ add_guard_transition_call
    \/ add_yield_transition_call

\* An hfsm_state under construction: any sequence of builder calls.
SpecBuilder == InitObjects /\ [][NextBuilder]_vars

\* A call on the flat machine returned or threw, with result r; call keeps
\* the machine as it was before.
fsm_returns(op, T, r) ==
    /\ fsm' = r.f
    /\ log' = r.lg
    /\ call' = [op |-> op, T |-> T, thrown |-> r.thrown, before |-> fsm]
    /\ UNCHANGED <<machine_vars, hfsm_state>>

\* machine.trigger<T>() is called from outside any callback.
fsm_trigger_call ==
    \E T \in FsmTransitions, sc \in Scripts :
        fsm_returns("trigger", T, fsm_trigger(NewRun(fsm, sc), T))

\* machine.delayed_trigger<T>() is called from outside any callback.
fsm_delayed_trigger_call ==
    \E T \in FsmTransitions :
        fsm_returns("delayed_trigger", T, delayed_trigger(NewRun(fsm, <<>>), T))

\* machine.update() is called from outside any callback.
fsm_update_call ==
    \E sc \in Scripts :
        fsm_returns("update", count, fsm_update(NewRun(fsm, sc)))

\* The transitions added to states of the machine after add_state.
AddTransitionInputs == {<<"walk", "do_jump", "jump">>}

\* machine.state<s>().add_transition<T, to>() is called from outside any
\* callback.
fsm_add_transition_call ==
    \E a \in AddTransitionInputs :
        fsm_returns("add_transition", a[2],
                    NewRun(fsm_state_add_transition(fsm, a[1], a[2], a[3]),
                           <<>>))

NextFsm ==
    \/ fsm_trigger_call
    \/ fsm_delayed_trigger_call
    \/ fsm_update_call
    \/ fsm_add_transition_call

\* The flat machine: any sequence of calls, each with any behaviour of the
\* callbacks it invokes.
SpecFsm == InitObjects /\ [][NextFsm]_vars

(***************************************************************************)
(* What the properties below speak of.  These definitions describe the     *)
(* hierarchy and the log on their own terms; they do not use the operators *)
(* that model the code.                                                    *)
(***************************************************************************)

\* No call is running.
Quiet == pc = "idle"

\* The last call was an update() that returned normally.
UpdateDone == Quiet /\ call.op = "update" /\ ~call.thrown

EnterNames == {"on_enter", "on_enter_from"}

ExitNames == {"on_exit", "on_exit_to"}

\* The positions of lg that hold an entry of one of the kinds evs.
Positions(lg, evs) == {k \in 1..Len(lg) : lg[k].ev \in evs}

\* The s fields of the entries of lg after position at whose kind is in evs,
\* the generic callbacks run ahead of a specialized one left out.
RECURSIVE StatesOf(_, _, _)
StatesOf(lg, at, evs) ==
    IF Len(lg) <= at
    THEN <<>>
    ELSE LET e == lg[Len(lg)]
         IN  StatesOf(Front(lg), at, evs)
             \o (IF e.ev \in evs /\ ~e.pre THEN <<e.s>> ELSE <<>>)

\* The active chain under top-level state cs, top-level state first.
RECURSIVE ChainFrom(_, _)
ChainFrom(sub, s) ==
    IF s = count THEN <<>> ELSE <<s>> \o ChainFrom(sub, sub[s])

RECURSIVE Reverse(_)
Reverse(q) == IF q = <<>> THEN <<>> ELSE Append(Reverse(Tail(q)), Head(q))

\* The state s is a direct child of.
ParentOf(s) ==
    IF \E p \in States : is_substate(p, s)
    THEN CHOOSE p \in States : is_substate(p, s)
    ELSE count

\* The top-level state that owns s.
RECURSIVE TopOf(_)
TopOf(s) == IF ParentOf(s) = count THEN s ELSE TopOf(ParentOf(s))

\* q runs from a state through first-added children down to a childless one.
IsDefaultChain(q) ==
    /\ q # <<>>
    /\ \A k \in 1..(Len(q) - 1) : substates(q[k])[1] = q[k + 1]
    /\ substates(Last(q)) = <<>>

\* The last transition the last call sequenced.
LastTrans == trans[Len(trans)]

\* The last call returned normally and the last transition it sequenced ran
\* to the end of its events: no callback triggered after it.
Completed == Quiet /\ ~call.thrown /\ trans # <<>>

(***************************************************************************)
(* C1                                                                      *)
(***************************************************************************)

\* No state of the active chain resolves T when the guard predicates return
\* gv: none has a plain transition or a yield for T, or a guard for T whose
\* predicate returns true.
Unresolvable(T, gv) ==
    LET chain == ChainFrom(current_substate, current_state)
    IN  \A k \in 1..Len(chain) :
            /\ transitions(chain[k], T) = count
            /\ ~is_yield_transition(chain[k], T)
            /\ \A j \in 1..Len(guard_transitions(chain[k], T)) :
                   ~gv[<<chain[k], T, j>>]

\* C1: on an initialized machine with nothing pending, a trigger<T> from
\* outside any callback that no state of the active chain resolves throws,
\* invokes no callback and leaves current_state, the history state and
\* every current_substate as they were.
C1_UnresolvedTriggerThrows ==
    [][(/\ pc = "idle" /\ pc' = "idle"
        /\ call'.op = "trigger"
        /\ current_state # count
        /\ transition_to_handle = count
        /\ Unresolvable(call'.T, call'.gv))
       => (/\ call'.thrown
           /\ log' = <<>>
           /\ transition_to_handle' = count
           /\ UNCHANGED <<current_state, history_state, current_substate>>)]_vars

\* A trigger was thrown back to the caller with a three-level chain active
\* and nothing pending.
C1_Witness ==
    /\ Quiet /\ call.op = "trigger" /\ call.thrown /\ call.init
    /\ call.pend = count
    /\ current_state = "A" /\ current_substate["A"] = "A1"
    /\ current_substate["A1"] = "A11"
    /\ history_state = "J"

(***************************************************************************)
(* C2                                                                      *)
(***************************************************************************)

\* The descriptor d is one of a resolved transition.
Resolved(d) == d.to # count \/ d.yield

\* The sequenced transition tr is the one that was pending, with descriptor
\* d, when the call began.
SameDescriptor(tr, d) ==
    /\ tr.T = call.pend
    /\ tr.from = d.from
    /\ tr.yield = d.yield
    /\ tr.internal = d.internal_transition
    /\ tr.exit_hierarchy = d.exit_hierarchy
    /\ ~d.yield => tr.to = d.to

\* An auto transition guard returned true in the call.
GuardFired == \E k \in 1..Len(log) : log[k].ev = "auto_guard" /\ log[k].x = "true"

\* A trigger<T> from outside any callback, on an initialized machine,
\* invoked no callback and left T pending.
TriggerStaysPending ==
    (Quiet /\ call.op = "trigger" /\ call.init /\ ~call.thrown)
    => (log = <<>> /\ trans = <<>> /\ transition_to_handle = call.T)

\* An update() that began with a transition pending invokes no on_update.
NoUpdateWhilePending ==
    (call.op = "update" /\ call.pend # count)
    => Positions(log, {"on_update"}) = {}

\* The callbacks of the only transition an update() of an initialized
\* machine sequenced: exits, then the change of state, then enters.
ExitChangeEnter ==
    (UpdateDone /\ call.init /\ Len(trans) = 1)
    => /\ \E c \in Positions(log, {"set_state", "set_sub"}) :
              /\ \A k \in Positions(log, ExitNames) : k < c
              /\ \A k \in Positions(log, EnterNames) : c < k
       /\ Positions(log, EnterNames) # {}

\* An update() that began with nothing pending, and in which no auto
\* transition guard returned true, invoked on_update.
UpdateFiresAfterwards ==
    (UpdateDone /\ call.init /\ call.pend = count /\ ~GuardFired)
    => Positions(log, {"on_update"}) # {}

FullCompleted == Completed /\ ~LastTrans.internal /\ LastTrans.to # count

\* The positions of the log after position at that hold a callback whose
\* name is in evs, the generic callbacks run ahead of a specialized one
\* left out.
MainPositions(at, evs) ==
    {k \in (at + 1)..Len(log) : log[k].ev \in evs /\ ~log[k].pre}

\* C3: a full transition invokes the exit callback of every state of the
\* active chain once, active leaf first and top-level state last, whatever
\* the depth of the chain, and looks the exit-to callback up with the
\* resolved target.
C3_ExitsLeafToRoot ==
    FullCompleted
    => LET tr == LastTrans
       IN  /\ StatesOf(log, tr.at, ExitNames)
                  = Reverse(ChainFrom(tr.sub, tr.cs))
           /\ \A k \in MainPositions(tr.at, ExitNames) :
                  /\ log[k].x = tr.to
                  /\ log[k].ev = "on_exit_to" <=> exit_to_exists(log[k].s, tr.to)

\* C4: after a full transition ran to its end, the history state is the
\* old current state, the current state is the top-level state that owns
\* the target, the active chain is that state's default chain down to a
\* childless state, and the enter callbacks were invoked for exactly that
\* chain, top-level state first, looked up with the handling state, all
\* after every exit callback and after the change of the current state.
C4_FullTransitionEntersDefaultChain ==
    FullCompleted
    => LET tr == LastTrans
           chain == ChainFrom(current_substate, current_state)
       IN  /\ history_state = tr.cs
           /\ current_state = TopOf(tr.to)
           /\ IsDefaultChain(chain)
           /\ StatesOf(log, tr.at, EnterNames) = chain
           /\ \A k \in MainPositions(tr.at, EnterNames) :
                  /\ log[k].x = tr.from
                  /\ log[k].ev = "on_enter_from"
                         <=> enter_from_exists(log[k].s, tr.from)
           /\ \E c \in (tr.at + 1)..Len(log) :
                  /\ log[c].ev = "set_state" /\ log[c].s = current_state
                  /\ \A k \in (tr.at + 1)..Len(log) :
                         /\ log[k].ev \in ExitNames => k < c
                         /\ log[k].ev \in EnterNames => c < k

\* A full transition whose target A12 is not on the default chain of its
\* top-level state A ran to its end, entering A, A1 and A11.
C4_Witness ==
    /\ FullCompleted /\ LastTrans.to = "A12" /\ LastTrans.cs = "B"
    /\ current_state = "A" /\ current_substate["A1"] = "A11"
    /\ StatesOf(log, LastTrans.at, EnterNames) = <<"A", "A1", "A11">>

(***************************************************************************)
(* C5, C6, C7                                                              *)
(***************************************************************************)

\* The last call returned normally and the last transition it sequenced,
\* an internal one, ran to the end of its events.
InternalCompleted == Completed /\ LastTrans.internal

\* The part of the chain q that lies strictly below state p.
RECURSIVE Below(_, _)
Below(q, p) ==
    IF q = <<>> THEN <<>>
    ELSE IF Head(q) = p THEN Tail(q)
    ELSE Below(Tail(q), p)

\* The part of the chain q from its head down to p, p included.
DownTo(q, p) == SubSeq(q, 1, Len(q) - Len(Below(q, p)))

\* State c, then its first-added child, and so on down to a childless state.
RECURSIVE DefaultChainFrom(_)
DefaultChainFrom(c) ==
    <<c>> \o (IF substates(c) = <<>>
              THEN <<>>
              ELSE DefaultChainFrom(substates(c)[1]))

\* C5: an internal transition with branch point P invokes the exit callback
\* of exactly the active states strictly below P, each once and deepest
\* first, before P's current substate changes; P and its ancestors get no
\* exit or enter callback; current state and history state stay.
C5_InternalExitsBelowBranchPoint ==
    InternalCompleted
    => LET tr == LastTrans
           P == ParentOf(tr.to)
           chain == ChainFrom(tr.sub, tr.cs)
           above == DownTo(chain, P)
       IN  /\ StatesOf(log, tr.at, ExitNames) = Reverse(Below(chain, P))
           /\ \E c \in (tr.at + 1)..Len(log) :
                  /\ log[c].ev = "set_sub" /\ log[c].s = P
                  /\ \A k \in (tr.at + 1)..Len(log) :
                         log[k].ev \in ExitNames => k < c
           /\ \A k \in (tr.at + 1)..Len(log) :
                  log[k].ev \in ExitNames \cup EnterNames
                  => \A j \in 1..Len(above) : log[k].s # above[j]
           /\ current_state = tr.cs
           /\ history_state = tr.hs

\* C6: after an internal transition to child C of branch point P, C is P's
\* current substate, the enter callbacks were invoked for C and then for
\* C's default descendants down to a childless state, shallowest first,
\* and each of these is the current substate of its parent.
C6_InternalEntersDefaultDescendants ==
    InternalCompleted
    => LET tr == LastTrans
           P == ParentOf(tr.to)
       IN  /\ current_substate[P] = tr.to
           /\ StatesOf(log, tr.at, EnterNames) = DefaultChainFrom(tr.to)
           /\ ChainFrom(current_substate, tr.to) = DefaultChainFrom(tr.to)

\* C7: with root A, mid A1 and leaf A11 active, the transition do_mid,
\* declared on A1 alone and targeting A1's other child A12, is executed as
\* an internal transition: A11 is exited, A1 and A are neither exited nor
\* entered, current state and history state stay.
C7_TransitionOfMidIsInternal ==
    (/\ Completed /\ LastTrans.T = "do_mid" /\ LastTrans.from = "A1"
     /\ ChainFrom(LastTrans.sub, LastTrans.cs) = <<"A", "A1", "A11">>)
    => LET tr == LastTrans
       IN  /\ tr.internal
           /\ StatesOf(log, tr.at, ExitNames) = <<"A11">>
           /\ \A k \in (tr.at + 1)..Len(log) :
                  log[k].ev \in ExitNames \cup EnterNames
                  => log[k].s \notin {"A", "A1"}
           /\ current_state = tr.cs
           /\ history_state = tr.hs
           /\ current_substate["A1"] = "A12"

(***************************************************************************)
(* C8                                                                      *)
(***************************************************************************)

\* C8: a completed transition from a top-level state to J makes J current
\* and that state the history state; a completed yield from J makes the
\* history state current again, J's exit callback being on_exit_to<that
\* state> if J registered one and on_exit otherwise, the callback entering
\* that state being its on_enter_from<J> if it registered one and its
\* on_enter otherwise.  This holds after any number of earlier round trips
\* and for every top-level state that can jump to J.
C8_HistoryRoundTrip ==
    /\ (FullCompleted /\ ~LastTrans.yield /\ LastTrans.to = "J")
       => (current_state = "J" /\ history_state = LastTrans.cs)
    /\ (Completed /\ LastTrans.yield /\ LastTrans.from = "J"
        /\ LastTrans.hs # count)
       => LET tr == LastTrans
              back == tr.hs
          IN  /\ tr.cs = "J" /\ tr.from = "J"
              /\ current_state = back
              /\ history_state = "J"
              /\ \E k \in MainPositions(tr.at, ExitNames) : log[k].s = "J"
              /\ \A k \in MainPositions(tr.at, ExitNames) :
                     /\ log[k].s = "J" /\ log[k].x = back
                     /\ log[k].ev = IF exit_to_exists("J", back)
                                    THEN "on_exit_to" ELSE "on_exit"
              /\ \E k \in MainPositions(tr.at, EnterNames) : log[k].s = back
              /\ \A k \in MainPositions(tr.at, EnterNames) :
                     log[k].s = back
                     => /\ log[k].x = "J"
                        /\ log[k].ev = IF enter_from_exists(back, "J")
                                       THEN "on_enter_from" ELSE "on_enter"

\* A yield brought the machine back from J to A, which it had left for J
\* after an earlier return from J: J was exited through on_exit_to<A>, A
\* entered through on_enter_from<J>.
C8_Witness ==
    /\ Completed /\ LastTrans.yield /\ LastTrans.hs = "A"
    /\ LastTrans.sub["A"] = "A1" /\ LastTrans.sub["A1"] = "A11"
    /\ current_state = "A" /\ history_state = "J"
    /\ \E k \in MainPositions(LastTrans.at, ExitNames) :
           log[k].ev = "on_exit_to"
    /\ \E k \in MainPositions(LastTrans.at, EnterNames) :
           log[k].ev = "on_enter_from" /\ log[k].s = "A"

(***************************************************************************)
(* C9, C10                                                                 *)
(***************************************************************************)

\* The number of on_update invocations of state s in the log.
Updates(s) == Cardinality({k \in Positions(log, {"on_update"}) : log[k].s = s})

\* The states of which an auto transition guard was evaluated in the call.
Guarded == {log[k].s : k \in Positions(log, {"auto_guard"})}

\* A callback called trigger in the call.
CallbackTriggered == Positions(log, {"trigger"}) # {}

\* C9: when an auto transition guard of a state of the update chain returns
\* true, the guard's transition is sequenced at once, in the same update(),
\* and that update() invokes on_update neither for that state nor, from
\* then on, for any other state, the entered ones included; if no callback
\* triggers afterwards, the exits, the change of state and the enters of
\* the transition have run when update() returns.  In an update() that
\* began with nothing pending and in which every guard returned false and
\* no callback triggered, on_update is invoked exactly once for every state
\* whose guards were evaluated, at most once for any other state, for
\* active states only, and for one at least.
C9_AutoGuardShortCircuit ==
    /\ \A k \in Positions(log, {"auto_guard"}) :
           log[k].x = "true"
           => /\ call.op = "update"
              /\ \E j \in 1..Len(trans) :
                     trans[j].at = k /\ trans[j].T = log[k].t
              /\ Updates(log[k].s) = 0
              /\ \A j \in Positions(log, {"on_update"}) : j < k
              /\ (UpdateDone /\ LastTrans.at = k)
                 => \E c \in Positions(log, {"set_state", "set_sub"}) :
                        /\ k < c
                        /\ \E e \in Positions(log, EnterNames) : c < e
    /\ (UpdateDone /\ call.init /\ call.pend = count /\ ~GuardFired
        /\ ~CallbackTriggered)
       => LET chain == ChainFrom(current_substate, current_state)
              active == {chain[j] : j \in 1..Len(chain)}
          IN  /\ \A s \in Guarded : Updates(s) = 1
              /\ \A s \in States \ Guarded : Updates(s) <= 1
              /\ \A s \in States \ active : Updates(s) = 0
              /\ \E s \in active : Updates(s) = 1

\* An auto transition guard of A11 returned true in an update() that had
\* two states in its update chain; the transition to A12 ran, on_update did
\* not; A1's update event was dropped.
C9_Witness ==
    /\ UpdateDone /\ call.init /\ call.pend = count
    /\ Len(log) > 1 /\ log[1].ev = "auto_guard" /\ log[1].s = "A11"
    /\ log[1].x = "true"
    /\ parent_update["A1"] /\ ~parent_update["A11"]
    /\ Len(trans) = 1 /\ current_substate["A1"] = "A12"
    /\ Positions(log, {"on_update"}) = {}

\* C10: in an update() in which nothing is pending and nothing triggers,
\* on_update of the active leaf is invoked once, and on_update of each
\* ancestor is invoked once if every state below it on the active chain
\* has parent update enabled, and not at all otherwise.
C10_UpdateChain ==
    (UpdateDone /\ call.init /\ call.pend = count /\ trans = <<>>
     /\ ~CallbackTriggered)
    => LET chain == ChainFrom(current_substate, current_state)
       IN  \A j \in 1..Len(chain) :
               Updates(chain[j])
                   = IF \A i \in (j + 1)..Len(chain) : parent_update[chain[i]]
                     THEN 1 ELSE 0

(***************************************************************************)
(* C11                                                                     *)
(***************************************************************************)

\* State s registered an auto transition guard.
HasAutoGuard(s) == \E T \in Transitions : auto_transition_guards(s, T) > 0

\* The depth of s below its top-level state.
RECURSIVE Depth(_)
Depth(s) == IF ParentOf(s) = count THEN 0 ELSE 1 + Depth(ParentOf(s))

\* C11: in an update() in which nothing is pending, every guard returns
\* false and no callback triggers, the auto transition guards of every
\* active state that registered some are evaluated, whatever the parent
\* update setting of the states below it, those of a parent before those
\* of its descendants, and those of a state before its on_update.
C11_GuardsOfWholeChainParentsFirst ==
    (UpdateDone /\ call.init /\ call.pend = count /\ ~GuardFired
     /\ ~CallbackTriggered)
    => LET chain == ChainFrom(current_substate, current_state)
       IN  /\ \A j \in 1..Len(chain) :
                  HasAutoGuard(chain[j]) => chain[j] \in Guarded
           /\ \A k1, k2 \in Positions(log, {"auto_guard"}) :
                  Depth(log[k1].s) < Depth(log[k2].s) => k1 < k2
           /\ \A k \in Positions(log, {"auto_guard"}) :
                  \A u \in Positions(log, {"on_update"}) :
                      log[k].s = log[u].s => k < u

(***************************************************************************)
(* C12, C13                                                                *)
(***************************************************************************)

\* The transition trans[j + 1] was triggered by an exit callback invoked
\* for the transition trans[j].
TriggeredInExitOf(j) ==
    LET k == trans[j + 1].at
    IN  /\ k > 1 /\ log[k].ev = "trigger"
        /\ log[k - 1].ev \in ExitNames
        /\ trans[j].at < k - 1

\* The number of exit callbacks invoked for state s toward state to after
\* position at of the log.
ExitsToward(s, to, at) ==
    Cardinality({i \in MainPositions(at, ExitNames) :
                     log[i].s = s /\ log[i].x = to})

\* C12: when an exit callback of state S, invoked for a full transition
\* toward B, triggers a transition toward another top-level state, the exit
\* callbacks of S and of each of S's ancestors are still invoked toward B,
\* once each; no state of B is entered and B does not become current; the
\* new transition is executed.
C12_ExitChainCompletedAfterRetrigger ==
    Completed
    => \A j \in 1..(Len(trans) - 1) :
           LET orig == trans[j]
               new == trans[j + 1]
               S == log[new.at - 1].s
               chain == ChainFrom(orig.sub, orig.cs)
               exiting == DownTo(chain, S)
           IN  (/\ TriggeredInExitOf(j)
                /\ ~orig.internal /\ orig.to # count
                /\ ~new.internal /\ new.to # count
                /\ TopOf(new.to) # TopOf(orig.to)
                /\ j + 1 = Len(trans))
               => /\ \A i \in 1..Len(exiting) :
                         ExitsToward(exiting[i], orig.to, orig.at) = 1
                  /\ \A i \in (orig.at + 1)..Len(log) :
                         /\ log[i].ev \in EnterNames
                                => TopOf(log[i].s) # TopOf(orig.to)
                         /\ log[i].ev = "set_state"
                                => log[i].s # TopOf(orig.to)
                  /\ current_state = TopOf(new.to)
                  /\ \E i \in MainPositions(new.at, EnterNames) :
                         log[i].s = current_state

\* The events q are those of one transition to state to handled by state
\* from: exits of active states, one change of state, enters.
EventsOfTransition(q, to, from, active) ==
    \E c \in 2..Len(q) :
        /\ q[c].kind \in {"set_state", "set_sub"} /\ q[c].x = to
        /\ \A i \in 1..(c - 1) :
               /\ q[i].kind = "exit" /\ q[i].s \in active
               /\ q[i].x = IF q[i].pre THEN count ELSE to
        /\ \A i \in (c + 1)..Len(q) :
               /\ q[i].kind = "enter"
               /\ q[i].x = IF q[i].pre THEN count ELSE from
        /\ ~q[c - 1].pre

\* C13: when a callback calls trigger for a transition that is handled,
\* the events that were queued behind it, the queued change of state
\* included, are dropped; the queue continues with the events of the new
\* transition, its first exit callback next, and that transition was
\* resolved against the current state and substates as they stood when the
\* callback triggered.
C13_RetriggerReplacesQueue ==
    [][(/\ Len(log') > Len(log) /\ log'[Len(log')].ev = "trigger"
        /\ ~call'.thrown /\ pc' # "crashed")
       => LET tr == trans'[Len(trans')]
              chain == ChainFrom(current_substate, current_state)
              active == {chain[j] : j \in 1..Len(chain)}
          IN  /\ Len(trans') = Len(trans) + 1
              /\ tr.T = log'[Len(log')].t /\ tr.at = Len(log')
              /\ tr.cs = current_state /\ tr.sub = current_substate
              /\ tr.from \in active
              /\ idx' = idx + 1
              /\ SubSeq(update_events', 1, idx) = SubSeq(update_events, 1, idx)
              /\ EventsOfTransition(
                     SubSeq(update_events', idx + 1, Len(update_events')),
                     tr.to, tr.from, active)]_vars

\* A11's exit callback, invoked for a transition toward B, triggered the
\* transition to J: A's exit toward B, the change to B and B's enter were
\* queued and never ran; J is current.
C13_Witness ==
    /\ Completed /\ call.init /\ Len(trans) = 2 /\ TriggeredInExitOf(1)
    /\ trans[1].to = "B" /\ trans[2].to = "J"
    /\ ExitsToward("A", "B", 0) = 0
    /\ Positions(log, {"set_state"}) # {}
    /\ \A i \in Positions(log, {"set_state"}) : log[i].s = "J"
    /\ current_state = "J"

(***************************************************************************)
(* C14, C15                                                                *)
(***************************************************************************)

\* The guards of state s for T whose predicate returns true under gv, by
\* position of registration.
TrueGuards(s, T, gv) ==
    {k \in 1..Len(guard_transitions(s, T)) : gv[<<s, T, k>>]}

\* State s resolves T when the guard predicates return gv.
Resolves(s, T, gv) ==
    \/ TrueGuards(s, T, gv) # {}
    \/ transitions(s, T) # count
    \/ is_yield_transition(s, T)

\* A trigger<T> from outside any callback has just resolved T.
TriggerResolved == Quiet /\ call.op = "trigger" /\ ~call.thrown

\* C14: the state that handles T resolves it to the target of the first
\* registered guard for T whose predicate returns true; without such a
\* guard, to the target of its plain transition for T; without that, to a
\* yield if T is a yield transition of the state.  A state without any of
\* these does not handle T.
C14_ResolutionAtOneState ==
    TriggerResolved
    => LET d == current_tranny_info
           s == d.from
           T == call.T
           hits == TrueGuards(s, T, call.gv)
       IN  /\ s \in States
           /\ Resolves(s, T, call.gv)
           /\ IF hits # {}
              THEN /\ ~d.yield
                   /\ \E k \in hits :
                          /\ \A j \in hits : k <= j
                          /\ d.to = guard_transitions(s, T)[k]
              ELSE IF transitions(s, T) # count
              THEN ~d.yield /\ d.to = transitions(s, T)
              ELSE d.yield /\ d.to = count

\* A trigger<do_b> found both guards of A true and resolved to J, the
\* target of the first one; A's plain transition for do_b goes to B.
C14_Witness ==
    /\ TriggerResolved /\ call.T = "do_b"
    /\ call.gv[<<"A", "do_b", 1>>] /\ call.gv[<<"A", "do_b", 2>>]
    /\ current_tranny_info.from = "A" /\ current_tranny_info.to = "J"
    /\ transitions("A", "do_b") = "B"

\* C15: trigger<T> is handled by the deepest state of the active chain that
\* resolves T; a state that is not active never handles T.
C15_DeepestActiveStateHandles ==
    TriggerResolved
    => LET chain == ChainFrom(current_substate, current_state)
           s == current_tranny_info.from
       IN  \E k \in 1..Len(chain) :
               /\ chain[k] = s
               /\ Resolves(s, call.T, call.gv)
               /\ \A j \in (k + 1)..Len(chain) :
                      ~Resolves(chain[j], call.T, call.gv)

\* With A, A1 and A12 active, trigger<do_up> was handled by A12 although
\* A1 declares do_up too.
C15_Witness ==
    /\ TriggerResolved /\ call.T = "do_up"
    /\ ChainFrom(current_substate, current_state) = <<"A", "A1", "A12">>
    /\ transitions("A1", "do_up") # count
    /\ current_tranny_info.from = "A12"

\* ---------------------------------------------------------------------
\* Parallel machines.

\* The fields of a machine the parallel regions are compared on: current
\* state, history, substates, pending transition.
Region(m) == <<m.cs, m.hs, m.sub, m.tth>>

\* A step that is a whole trigger<T> call from outside any callback on an
\* initialized primary machine.
TriggerStep ==
    /\ pc = "idle" /\ pc' = "idle"
    /\ current_state # count
    /\ call'.op = "trigger"
    /\ call' # call \/ log' # log \/ Machine' # Machine
       \/ parallel_machines' # parallel_machines

\* What trigger<T> makes of the primary machine and of the k-th parallel
\* machine, each taken alone.
PrimaryAlone == trigger(Machine, call'.T, call'.gv)
SiblingAlone(k) == sub_trigger(parallel_machines[k], <<>>, call'.T).m

\* The parallel machines that cannot resolve the transition triggered.
FailingSiblings ==
    {k \in 1..Len(parallel_machines) : SiblingAlone(k).thrown}

\* C16: when exactly one region cannot resolve a trigger<T>, every other
\* region ends with the current state, history, substates and pending
\* transition it would have had if it had been triggered without the
\* failing region.
C16_FailureOfOneRegionIsIsolated ==
    [][TriggerStep
       /\ Len(parallel_machines) > 0
       /\ Cardinality(FailingSiblings)
            + (IF PrimaryAlone.thrown THEN 1 ELSE 0) = 1
       => /\ ~PrimaryAlone.thrown
             => Region(Machine') = Region(PrimaryAlone)
          /\ \A k \in 1..Len(parallel_machines) :
                 k \notin FailingSiblings
                 => Region(parallel_machines'[k]) = Region(SiblingAlone(k))
      ]_vars

\* The region state s belongs to: 0 for the primary machine, k for the
\* k-th parallel machine added.
RegionOf(s) ==
    LET ks == {k \in 1..Len(parallel_machines) :
                   \E j \in 1..Len(states_of(parallel_machines[k].default)) :
                       states_of(parallel_machines[k].default)[j] = s}
    IN  IF ks = {} THEN 0 ELSE CHOOSE k \in ks : TRUE

\* C17: within one update() or trigger<T>() call every callback and guard
\* of the primary machine runs before any callback of a parallel machine,
\* and the parallel machines run in the order they were added.
C17_PrimaryThenSiblingsInOrder ==
    \A i, j \in 1..Len(log) :
        i < j => RegionOf(log[i].s) <= RegionOf(log[j].s)

\* The step in which update() of the primary machine, its own queue run to
\* the end, updates the parallel machines and returns.
SiblingsUpdated ==
    /\ pc = "update" /\ pc' = "idle"
    /\ idx > Len(update_events)

\* In that step an auto transition guard of a parallel machine returned
\* true.
SiblingGuardFired ==
    \E i \in (Len(log) + 1)..Len(log') :
        /\ log'[i].ev = "auto_guard" /\ log'[i].x = "true"
        /\ RegionOf(log'[i].s) > 0

\* C18: a transition fired by an auto transition guard of a parallel
\* machine during update() leaves the primary machine's current state,
\* history and substates as they were, runs no callback of the primary
\* machine and undoes none, and leaves no transition pending on the
\* primary machine.
C18_SiblingGuardLeavesPrimaryAlone ==
    [][SiblingsUpdated /\ SiblingGuardFired
       => /\ current_state' = current_state
          /\ history_state' = history_state
          /\ current_substate' = current_substate
          /\ transition_to_handle' = count
          /\ SubSeq(log', 1, Len(log)) = log
          /\ \A i \in (Len(log) + 1)..Len(log') : RegionOf(log'[i].s) > 0
      ]_vars

\* update() ran on_update of the primary machine, then the guard of Q1
\* returned true and the first parallel machine went from Q1 to Q2.
C18_Witness ==
    /\ pc = "idle" /\ call.op = "update" /\ ~call.thrown
    /\ current_state # count
    /\ transition_to_handle = count
    /\ parallel_machines # <<>>
    /\ parallel_machines[1].cs = "Q2"
    /\ \E k, i, j \in 1..Len(log) :
           /\ k < i /\ i < j
           /\ log[k].ev = "on_update" /\ RegionOf(log[k].s) = 0
           /\ log[i].ev = "auto_guard" /\ log[i].x = "true"
           /\ log[i].s = "Q1"
           /\ log[j].ev = "on_enter" /\ log[j].s = "Q2"

(***************************************************************************)
(* C19                                                                     *)
(***************************************************************************)

\* State s, then its default child, and so on down to a childless state.
RECURSIVE DefaultLeafChain(_)
DefaultLeafChain(s) ==
    <<s>> \o (IF substates(s) = <<>>
              THEN <<>>
              ELSE DefaultLeafChain(default_substate(s)))

\* The generic on_enter of s, invoked by initialization.
InitEnter(s) == LogEntry("on_enter", s, count, count, FALSE)

\* The first call made on the machine has returned; log is its log.
FirstCallDone == Quiet /\ call.op # "none" /\ ~call.init

\* Before the first call nothing ran and no state is current; the first
\* call makes the default state and its default chain current before any
\* callback runs; a call on an initialized machine runs no callback of
\* initialization (an enter callback that is given no state entered from,
\* the generic one invoked ahead of an on_enter_from apart), unless it
\* sequences a transition whose descriptor was wiped.
LazyInitOnce ==
    /\ call.op = "none" <=> current_state = count
    /\ call.op = "none" => log = <<>> /\ pc = "idle"
    /\ pc \in {"init_update", "init_trigger"} /\ log = <<>>
       => /\ ~call.init
          /\ current_state = default_state
          /\ ChainFrom(current_substate, current_state)
                 = DefaultLeafChain(default_state)
    /\ call.init
       => /\ pc \notin {"init_update", "init_trigger"}
          /\ (\A i \in 1..Len(trans) : trans[i].from # count)
             => \A k \in 1..Len(log) :
                    log[k].ev \in EnterNames /\ ~log[k].pre
                    => log[k].x # count

\* C19 as stated: initialization is lazy and happens once, and the first
\* call invokes the generic on_enter of every state of the default chain,
\* root to leaf, once each.
C19_InitEntersWholeDefaultChain ==
    /\ LazyInitOnce
    /\ FirstCallDone
       => LET chain == DefaultLeafChain(default_state)
          IN  /\ Len(log) >= Len(chain)
              /\ \A k \in 1..Len(chain) : log[k] = InitEnter(chain[k])

\* C19, amended: initialization is lazy and happens once, and the first
\* call invokes the generic on_enter of the states of the default chain,
\* root to leaf, once each, up to the first of them that calls trigger:
\* the on_enter of the states below that one is not invoked.
C19_InitEntersDefaultChainUntilTrigger ==
    /\ LazyInitOnce
    /\ FirstCallDone
       => LET chain == DefaultLeafChain(default_state)
              untriggered(k) ==
                  \A j \in 1..k : j <= Len(log) => log[j].ev # "trigger"
          IN  /\ \A k \in 1..Len(chain) :
                     untriggered(k)
                     => k <= Len(log) /\ log[k] = InitEnter(chain[k])
              /\ \A k \in 1..Len(log) :
                     /\ log[k].ev \in EnterNames /\ log[k].x = count
                     /\ ~log[k].pre
                     => k <= Len(chain) /\ untriggered(k)

\* The first call, an update(), entered A, A1 and A11 by their generic
\* on_enter, none of which called trigger, and went on to the update.
C19_Witness ==
    /\ FirstCallDone /\ call.op = "update"
    /\ Len(log) > 3
    /\ log[1] = InitEnter("A") /\ log[2] = InitEnter("A1")
    /\ log[3] = InitEnter("A11")
    /\ log[4].ev \in {"on_update", "auto_guard"}

(***************************************************************************)
(* C20                                                                     *)
(***************************************************************************)

\* The call s.execute_event<Event>(x, machine) was made and has returned.
EventExecuted == pc = "execute_event" /\ idx = 2

\* The log after one callback ev of state s, given x, was invoked.
Invoked(ev, s, x) == <<LogEntry(ev, s, x, count, FALSE)>>

\* C20: one call of execute_event invokes at most one callback.  For
\* on_enter given state x it is on_enter_from<x> if x is not the sentinel
\* and s registered one for x, else the generic on_enter if registered,
\* else none; for on_exit likewise with on_exit_to<x> and on_exit; for
\* on_update it is the generic on_update if registered, whatever x is.
C20_ExecuteEventInvokesOneCallback ==
    EventExecuted
    => LET e == update_events[1]
           s == e.s
           x == e.x
       IN  /\ Len(log) <= 1
           /\ e.kind = "enter"
              => log = IF x # count /\ enter_from_exists(s, x)
                       THEN Invoked("on_enter_from", s, x)
                       ELSE IF simple_event_exists(s, "on_enter")
                       THEN Invoked("on_enter", s, x)
                       ELSE <<>>
           /\ e.kind = "exit"
              => log = IF x # count /\ exit_to_exists(s, x)
                       THEN Invoked("on_exit_to", s, x)
                       ELSE IF simple_event_exists(s, "on_exit")
                       THEN Invoked("on_exit", s, x)
                       ELSE <<>>
           /\ e.kind = "update"
              => log = IF simple_event_exists(s, "on_update")
                       THEN Invoked("on_update", s, x)
                       ELSE <<>>

\* on_enter of A was executed with J, for which A registered an
\* on_enter_from besides its generic on_enter: on_enter_from ran alone.
C20_Witness ==
    /\ EventExecuted
    /\ update_events[1] = Event("enter", "A", "J", FALSE)
    /\ simple_event_exists("A", "on_enter")
    /\ log = Invoked("on_enter_from", "A", "J")

(***************************************************************************)
(* C21                                                                     *)
(***************************************************************************)

\* The entries of lg after position at that are callbacks of state s with a
\* name in evs, in order.
RECURSIVE EntriesOf(_, _, _, _)
EntriesOf(lg, at, s, evs) ==
    IF Len(lg) <= at
    THEN <<>>
    ELSE EntriesOf(Front(lg), at, s, evs)
         \o (IF Last(lg).ev \in evs /\ Last(lg).s = s
             THEN <<Last(lg)>> ELSE <<>>)

\* The enter callbacks a state s entered from state from is to run: its
\* on_enter_from for from if it registered one, preceded by its generic
\* on_enter if that registration set the flag; else its generic on_enter.
EnterCallbacks(s, from) ==
    IF from # count /\ enter_from_exists(s, from)
    THEN (IF enter_from_calls_on_enter_flag(s, from)
             /\ simple_event_exists(s, "on_enter")
          THEN <<LogEntry("on_enter", s, count, count, TRUE)>>
          ELSE <<>>)
         \o <<LogEntry("on_enter_from", s, from, count, FALSE)>>
    ELSE IF simple_event_exists(s, "on_enter")
    THEN <<LogEntry("on_enter", s, from, count, FALSE)>>
    ELSE <<>>

\* The exit callbacks a state s exited toward state to is to run.
ExitCallbacks(s, to) ==
    IF to # count /\ exit_to_exists(s, to)
    THEN (IF exit_to_calls_on_exit_flag(s, to)
             /\ simple_event_exists(s, "on_exit")
          THEN <<LogEntry("on_exit", s, count, count, TRUE)>>
          ELSE <<>>)
         \o <<LogEntry("on_exit_to", s, to, count, FALSE)>>
    ELSE IF simple_event_exists(s, "on_exit")
    THEN <<LogEntry("on_exit", s, to, count, FALSE)>>
    ELSE <<>>

\* The states with an enter / exit callback in their own right (not the
\* generic one run ahead of a specialized one) after position at.
StatesEntered(at) == {log[k].s : k \in MainPositions(at, EnterNames)}
StatesExited(at) == {log[k].s : k \in MainPositions(at, ExitNames)}

\* C21: in a transition that ran to its end, a state entered from F runs
\* its generic on_enter and then on_enter_from<F> if it registered
\* on_enter_from<F> with the flag set, on_enter_from<F> alone if without the
\* flag, and its generic on_enter alone, once, if it registered no
\* on_enter_from<F>, whatever it registered for other states; likewise a
\* state exited toward T with on_exit and on_exit_to<T>.
C21_GeneralEventFlagPerSlot ==
    Completed
    => \A s \in States :
           /\ EntriesOf(log, LastTrans.at, s, EnterNames)
                  = IF s \in StatesEntered(LastTrans.at)
                    THEN EnterCallbacks(s, LastTrans.from)
                    ELSE <<>>
           /\ EntriesOf(log, LastTrans.at, s, ExitNames)
                  = IF s \in StatesExited(LastTrans.at)
                    THEN ExitCallbacks(s, LastTrans.to)
                    ELSE <<>>

\* B, which registered on_enter_from<A> with the flag set, was entered from
\* A: on_enter, then on_enter_from<A>.
C21_Witness ==
    /\ FullCompleted /\ LastTrans.from = "A" /\ current_state = "B"
    /\ EntriesOf(log, LastTrans.at, "B", EnterNames)
           = <<LogEntry("on_enter", "B", count, count, TRUE),
               LogEntry("on_enter_from", "B", "A", count, FALSE)>>

\* B was entered from J, for which it registered nothing: on_enter alone.
C21_WitnessOtherState ==
    /\ FullCompleted /\ LastTrans.from = "J" /\ current_state = "B"
    /\ EntriesOf(log, LastTrans.at, "B", EnterNames)
           = <<LogEntry("on_enter", "B", "J", count, FALSE)>>

(***************************************************************************)
(* C24, C25                                                                *)
(***************************************************************************)

\* No state of the default chain registered anything for T.
DefaultChainIgnores(T) ==
    \A k \in 1..Len(DefaultLeafChain(default_state)) :
        LET s == DefaultLeafChain(default_state)[k]
        IN  /\ ~transition_exists(s, T)
            /\ ~guard_transition_exists(s, T)
            /\ ~is_yield_transition(s, T)

\* C24: when the first call made on the machine is a trigger<T> that no
\* state of the default chain handles, the call throws, no callback was
\* invoked and the machine is still uninitialized.
C24_FailedFirstTriggerLeavesMachineUntouched ==
    /\ Quiet /\ call.op = "trigger" /\ ~call.init
    /\ DefaultChainIgnores(call.T)
    => /\ call.thrown
       /\ log = <<>>
       /\ current_state = count

\* C25: when a trigger<T2> made from outside any callback throws while a
\* resolved transition is pending, the pending transition and its
\* descriptor are what they were before the call.
C25_FailedTriggerKeepsPendingTransition ==
    /\ Quiet /\ call.op = "trigger" /\ call.init
    /\ call.pend # count /\ call.thrown
    => /\ transition_to_handle = call.pend
       /\ current_tranny_info = call.ti

(***************************************************************************)
(* C30                                                                     *)
(***************************************************************************)

\* C30: the descriptor of a resolution never has yield and
\* internal_transition both set, and when internal_transition is set its
\* target is a direct child of the last state of its exit path.
C30_DescriptorSafety ==
    /\ ~(current_tranny_info.yield /\ current_tranny_info.internal_transition)
    /\ current_tranny_info.internal_transition
       => /\ current_tranny_info.exit_hierarchy # <<>>
          /\ is_substate(Last(current_tranny_info.exit_hierarchy),
                         current_tranny_info.to)

\* trigger<do_sib> was resolved by A11 toward its sibling A12: an internal
\* transition whose exit path ends with their parent A1.
C30_Witness ==
    /\ transition_to_handle = "do_sib"
    /\ current_tranny_info.internal_transition
    /\ current_tranny_info.from = "A11" /\ current_tranny_info.to = "A12"
    /\ current_tranny_info.exit_hierarchy = <<"A11", "A1">>

(***************************************************************************)
(* C31                                                                     *)
(***************************************************************************)

\* A trigger from outside any callback left its transition pending: the
\* machine is as it was when the transition was resolved.
Pending ==
    /\ Quiet /\ call.op = "trigger" /\ ~call.thrown
    /\ transition_to_handle # count

\* s and the states that own it, s first and the top-level state last.
RECURSIVE UpFrom(_)
UpFrom(s) == IF s = count THEN <<>> ELSE <<s>> \o UpFrom(ParentOf(s))

\* The states s registered as targets of T, plain or guarded.
Targets(s, T) ==
    {transitions(s, T)}
    \cup {guard_transitions(s, T)[k] : k \in 1..Len(guard_transitions(s, T))}

\* The exit path q ends with st and every state that owns st, in order.
EndsWithAncestors(q, st) ==
    /\ Len(UpFrom(st)) <= Len(q)
    /\ SubSeq(q, Len(q) - Len(UpFrom(st)) + 1, Len(q)) = UpFrom(st)

\* C31 as stated: once a state of the active chain set yield or
\* internal_transition on the descriptor, every state above it on the chain
\* is appended to the exit path.
C31_AncestorsJoinExitPath ==
    LET d == current_tranny_info
    IN  /\ (Pending /\ d.yield)
           => EndsWithAncestors(d.exit_hierarchy, d.from)
        /\ (Pending /\ d.internal_transition)
           => EndsWithAncestors(d.exit_hierarchy, Last(d.exit_hierarchy))

\* C31: once a state of the active chain set yield, every state above it is
\* appended to the exit path and the descriptor keeps what that state set;
\* once a state set internal_transition, the states above it leave the
\* descriptor as it is and are not appended: the exit path ends with the
\* state that set the flag. In both cases the guards, the plain transition
\* and the yield flag of the states above are not used.
C31_AncestorsAfterYieldOrInternal ==
    LET d == current_tranny_info
    IN  /\ (Pending /\ d.yield)
           => /\ d.exit_hierarchy = UpFrom(d.from)
              /\ is_yield_transition(d.from, transition_to_handle)
              /\ d.to = count
        /\ (Pending /\ d.internal_transition)
           => /\ is_substate(Last(d.exit_hierarchy), d.to)
              /\ d.from # Last(d.exit_hierarchy)
              /\ d.to \in Targets(d.from, transition_to_handle)
              /\ \A k \in 1..Len(d.exit_hierarchy) :
                     ParentOf(Last(d.exit_hierarchy)) # d.exit_hierarchy[k]

\* trigger<do_b> was resolved by the yield of A12 while a guard of A for do_b
\* would have returned true: A1 and A joined the exit path and the guard and
\* the plain transition of A were left out.
C31_Witness ==
    /\ Pending
    /\ transition_to_handle = "do_b"
    /\ call.gv[<<"A", "do_b", 1>>]
    /\ current_tranny_info.yield
    /\ current_tranny_info.from = "A12"
    /\ current_tranny_info.exit_hierarchy = <<"A12", "A1", "A">>

(***************************************************************************)
(* C32                                                                     *)
(***************************************************************************)

\* The top-level states of the machine.
TopLevelStates == {s \in States : ParentOf(s) = count}

\* C32: whenever an initialized machine is quiescent, with no call running
\* and no transition pending, current_state is a top-level state and every
\* state of the active chain that owns substates has one of them as its
\* current_substate: the chain descends to a childless state.
C32_ActiveChainReachesLeaf ==
    (Quiet /\ current_state # count /\ transition_to_handle = count)
    => /\ current_state \in TopLevelStates
       /\ \A s \in States :
              (\E k \in 1..Len(ChainFrom(current_substate, current_state)) :
                   ChainFrom(current_substate, current_state)[k] = s)
              /\ substates(s) # <<>>
                  => is_substate(s, current_substate[s])

(***************************************************************************)
(* C33                                                                     *)
(***************************************************************************)

\* The positions of the log where an auto transition guard of s was
\* evaluated, in order.
GuardPositions(s) ==
    {k \in 1..Len(log) : log[k].ev = "auto_guard" /\ log[k].s = s}

\* The transitions of the auto transition guards of s that the update event
\* of s evaluated, in the order of evaluation.
RECURSIVE GuardsEvaluated(_, _)
GuardsEvaluated(lg, s) ==
    IF lg = <<>>
    THEN <<>>
    ELSE GuardsEvaluated(Front(lg), s)
         \o (IF Last(lg).ev = "auto_guard" /\ Last(lg).s = s
             THEN <<Last(lg).t>>
             ELSE <<>>)

\* p is q or a beginning of q.
IsPrefix(p, q) == Len(p) <= Len(q) /\ SubSeq(q, 1, Len(p)) = p

\* The place of T in the transition enum.
EnumIndex(T) == CHOOSE k \in 1..Len(TransitionEnum) : TransitionEnum[k] = T

\* The first auto transition guard of s that returned true is the last one
\* evaluated, and its transition is the one triggered and sequenced.
FirstTrueGuardTriggers(s) ==
    \A k \in GuardPositions(s) :
        log[k].x = "true"
        => /\ \A j \in GuardPositions(s) : j <= k
           /\ \/ call.thrown
              \/ pc = "crashed"
              \/ \E i \in 1..Len(trans) :
                     trans[i].at = k /\ trans[i].T = log[k].t

\* The update event of s evaluated all of its guards unless one returned
\* true.
AllGuardsUnlessTrue(s) ==
    (/\ GuardPositions(s) # {}
     /\ \A k \in GuardPositions(s) : log[k].x = "false")
    => Len(GuardsEvaluated(log, s)) = Len(auto_transition_guard_calls(s))

\* C33 as stated: in update() the auto transition guards of a state are
\* evaluated in the order they were registered on the state, across all
\* transition ids, and the first that returns true is the one whose
\* transition is triggered.
C33_GuardsInRegistrationOrder ==
    \A s \in States :
        /\ IsPrefix(GuardsEvaluated(log, s), auto_transition_guard_calls(s))
        /\ AllGuardsUnlessTrue(s)
        /\ FirstTrueGuardTriggers(s)

\* C33: in update() the auto transition guards of a state are evaluated by
\* transition id, in the order of the transition enum, whatever the order
\* they were registered in: a guard is evaluated after every guard the state
\* registered for a transition declared earlier. The first guard that
\* returns true is the one whose transition is triggered.
C33_GuardsInEnumOrder ==
    \A s \in States :
        /\ \A j, k \in 1..Len(GuardsEvaluated(log, s)) :
               j < k => EnumIndex(GuardsEvaluated(log, s)[j])
                            <= EnumIndex(GuardsEvaluated(log, s)[k])
        /\ \A k \in 1..Len(GuardsEvaluated(log, s)) :
               \A c \in 1..Len(auto_transition_guard_calls(s)) :
                   EnumIndex(auto_transition_guard_calls(s)[c])
                       < EnumIndex(GuardsEvaluated(log, s)[k])
                   => \E j \in 1..(k - 1) :
                          GuardsEvaluated(log, s)[j]
                              = auto_transition_guard_calls(s)[c]
        /\ AllGuardsUnlessTrue(s)
        /\ FirstTrueGuardTriggers(s)

\* The update event of B evaluated the guard B registered second, for do_a,
\* which returned false, and then the guard B registered first, for do_jump,
\* which returned true: do_jump was sequenced.
C33_Witness ==
    /\ call.op = "update"
    /\ GuardsEvaluated(log, "B") = <<"do_a", "do_jump">>
    /\ \E k \in GuardPositions("B") : log[k].x = "true" /\ log[k].t = "do_jump"
    /\ \E i \in 1..Len(trans) : trans[i].T = "do_jump" /\ trans[i].from = "B"

(***************************************************************************)
(* C34                                                                     *)
(***************************************************************************)

\* C34: whenever a yield transition is executed, the history state it
\* returns to is a top-level state of the machine, never the sentinel.
C34_YieldReturnsToRegisteredState ==
    \A k \in 1..Len(trans) :
        (trans[k].yield /\ ~trans[k].internal)
        => /\ trans[k].hs # count
           /\ trans[k].hs \in TopLevelStates
           /\ trans[k].to = trans[k].hs

(***************************************************************************)
(* C35                                                                     *)
(***************************************************************************)

\* The states of the sequence q.
Range(q) == {q[k] : k \in 1..Len(q)}

\* The states a callback of one of the kinds evs was invoked on after
\* position at of the log.
CalledAfter(at, evs) ==
    {log[k].s : k \in {j \in Positions(log, evs) : j > at}}

\* No callback has called trigger since the machine was constructed, and
\* the last call sequenced one transition and returned normally.
OneTransitionNoCallbackTrigger ==
    /\ Quiet /\ ~call.thrown
    /\ retrigs = 0
    /\ Len(trans) = 1

\* C35: in a machine whose callbacks never call trigger, the enter and exit
\* callbacks of every state alternate, starting with an enter.  Over one
\* executed transition: only states that were on the active chain are
\* exited, every state that left the active chain was exited, and only
\* states that were off the chain or were exited are entered.
C35_EnterExitAlternate ==
    OneTransitionNoCallbackTrigger
    => LET before == Range(ChainFrom(trans[1].sub, trans[1].cs))
           after == Range(ChainFrom(current_substate, current_state))
           exited == CalledAfter(trans[1].at, ExitNames)
           entered == CalledAfter(trans[1].at, EnterNames)
       IN  /\ exited \subseteq before
           /\ (before \ after) \subseteq exited
           /\ entered \subseteq ((States \ before) \cup exited)

(***************************************************************************)
(* C36                                                                     *)
(***************************************************************************)

\* An enter callback of a state that owns substates called trigger in the
\* first call made on the machine: the enter callbacks queued behind it
\* were discarded.
EnterCallbackTriggered ==
    /\ call.op # "none" /\ ~call.init
    /\ \E k \in 2..Len(log) :
           /\ log[k].ev = "trigger"
           /\ log[k - 1].ev \in EnterNames
           /\ log[k - 1].s = log[k].s
           /\ substates(log[k].s) # <<>>

\* C36: when the on_enter of a state that owns substates triggers a
\* transition while an enter chain is executed, the new transition invokes
\* exit callbacks only on states whose enter callback was invoked: the
\* states whose queued enter was discarded are not exited.
C36_NoExitWithoutEnter ==
    EnterCallbackTriggered
    => \A k \in Positions(log, ExitNames) :
           \E j \in Positions(log, EnterNames) :
               j < k /\ log[j].s = log[k].s

(***************************************************************************)
(* C37                                                                     *)
(***************************************************************************)

\* A trigger<T> from outside any callback succeeds while the transition of
\* an earlier trigger is still pending.
SecondTrigger ==
    /\ pc = "idle" /\ pc' = "idle"
    /\ call'.op = "trigger" /\ ~call'.thrown
    /\ current_state # count
    /\ transition_to_handle # count

\* The descriptor a trigger<T> leaves on a machine on which nothing was
\* triggered before, the guard predicates returning gv.
FreshDescriptor(T, gv) ==
    transition(current_substate, current_state, T, EmptyInfo, gv)

\* The update() that began with a transition pending which no auto
\* transition guard replaced executed that transition, as it was resolved by
\* the last trigger, before it invoked any callback.
PendingIsExecuted ==
    (/\ call.op = "update" /\ call.pend # count /\ call.init
     /\ Quiet /\ ~call.thrown /\ ~GuardFired
     /\ Resolved(call.ti))
    => /\ trans # <<>>
       /\ SameDescriptor(trans[1], call.ti)
       /\ \A k \in 1..trans[1].at : log[k].ev = "auto_guard"

UpdateWithoutCallbackTrigger ==
    /\ call.op = "update"
    /\ \A k \in 1..Len(log) : log[k].ev # "trigger"

\* C38: in an update() in which no callback calls trigger, no auto
\* transition guard is evaluated after one that returned true, on no state,
\* and at most one transition is executed.
C38_OneGuardTransitionPerUpdate ==
    UpdateWithoutCallbackTrigger
    => /\ \A j, k \in Positions(log, {"auto_guard"}) :
              j < k => log[j].x = "false"
       /\ Len(trans) <= 1

\* An update() with the update events of A, A1 and A11 queued has returned:
\* the guard of A for do_b returned true, the machine went to B, and neither
\* the guard of A11 nor the guards of B were evaluated.
C38_Witness ==
    /\ UpdateDone /\ UpdateWithoutCallbackTrigger
    /\ parent_update["A1"] /\ parent_update["A11"]
    /\ Len(trans) = 1
    /\ trans[1].cs = "A" /\ trans[1].sub["A1"] = "A11"
    /\ trans[1].T = "do_b" /\ trans[1].to = "B"
    /\ current_state = "B"
    /\ \E k \in Positions(log, {"auto_guard"}) :
           log[k].s = "A" /\ log[k].x = "true"
    /\ GuardPositions("A11") = {} /\ GuardPositions("B") = {}

(***************************************************************************)
(* C39                                                                     *)
(***************************************************************************)

AlreadyPlainOrYield ==
    \/ call.before.transition_exists[call.T]
    \/ call.before.is_yield_transition[call.T]

\* C22: add_transition<T> throws when T is a plain or a yield transition of
\* the state already, add_yield_transition<T> throws when T is a yield or a
\* plain transition already, and a call that throws leaves the tables and
\* the yield flags of the state as they were.
C22_BuilderRejections ==
    /\ call.op \in {"add_transition", "add_yield_transition"}
       /\ AlreadyPlainOrYield
           => call.thrown
    /\ call.op \in {"add_transition", "add_yield_transition"}
       /\ call.thrown
           => hfsm_state = call.before

\* add_transition was rejected for a yield transition and
\* add_yield_transition was the call before it.
C22_Witness ==
    /\ call.op = "add_transition"
    /\ call.thrown
    /\ call.before.is_yield_transition[call.T]
    /\ ~call.before.transition_exists[call.T]
    /\ hfsm_state = call.before

\* C23: whatever builder calls were made, no transition of the state is
\* yield and plain or guarded at once.
C23_YieldExcludesPlainAndGuarded ==
    \A T \in Transitions :
        ~ /\ hfsm_state.is_yield_transition[T]
          /\ \/ hfsm_state.transition_exists[T]
             \/ hfsm_state.guard_transition_exists[T]

(***************************************************************************)
(* C26..C29: the flat machine (SpecFsm).                                   *)
(***************************************************************************)

FsmCallbackNames ==
    {"on_enter", "on_enter_from", "on_update", "on_exit", "on_exit_to"}

\* The positions of the log where a callback was invoked.
FsmCallbacks == {k \in 1..Len(log) : log[k].ev \in FsmCallbackNames}

\* What the log says happened, in order, without what the callbacks did.
FsmShape == [k \in 1..Len(log) |-> <<log[k].ev, log[k].s, log[k].x>>]

\* The one exit callback of s toward x, and the one enter callback of s
\* from x, if there is any.
OneExit(s, x) ==
    IF on_exit_to_funcs(s, x) THEN <<(<<"on_exit_to", s, x>>)>>
    ELSE IF fsm_func(s, "on_exit") THEN <<(<<"on_exit", s, x>>)>>
    ELSE <<>>
OneEnter(s, x) ==
    IF on_enter_from_funcs(s, x) THEN <<(<<"on_enter_from", s, x>>)>>
    ELSE IF fsm_func(s, "on_enter") THEN <<(<<"on_enter", s, x>>)>>
    ELSE <<>>

\* The last call was trigger<T> on an initialized machine with no delayed
\* trigger pending.
PlainTrigger ==
    /\ call.op = "trigger"
    /\ call.before.current_state # count
    /\ ~call.before.has_delayed_trigger

\* The state the last call started in and the target registered there for
\* the transition of the call.
S1 == call.before.current_state
S2 == call.before.states[S1][call.T]

\* C26: trigger<T> from S1 to S2 on an initialized machine, nothing delayed
\* pending and every callback returning without a call to the machine,
\* invokes the one exit callback of S1 (on_exit_to<S2>, else on_exit), sets
\* the state to S2, invokes the one enter callback of S2 (on_enter_from<S1>,
\* else on_enter), and nothing else.
C26_TriggerRunsOneExitThenOneEnter ==
    PlainTrigger /\ S2 # count
    /\ (\A k \in FsmCallbacks : log[k].did = Return)
        => /\ ~call.thrown
           /\ fsm.current_state = S2
           /\ FsmShape = <<(<<"trigger", S1, call.T>>)>> \o OneExit(S1, S2)
                         \o <<(<<"set_state", S2, S1>>)>> \o OneEnter(S2, S1)

\* C27 as stated, for any initialized machine: trigger<T> with no transition
\* registered for T on the current state throws before any callback and
\* leaves the current state as it was.
C27_UnhandledTriggerThrows ==
    call.op = "trigger" /\ call.before.current_state # count /\ S2 = count
        => /\ call.thrown
           /\ FsmCallbacks = {}
           /\ fsm.current_state = S1

\* C27, with no delayed trigger pending: trigger<T> with no transition
\* registered for T on the current state throws before any callback and
\* leaves the machine as it was; once the transition is registered (by
\* add_transition on the state), the trigger does not throw and reaches the
\* registered target, when its callbacks return.
C27_UnhandledTriggerThrowsUnlessDelayed ==
    /\ PlainTrigger /\ S2 = count
           => /\ call.thrown
              /\ FsmCallbacks = {}
              /\ fsm = call.before
    /\ PlainTrigger /\ S2 # count
       /\ (\A k \in FsmCallbacks : log[k].did = Return)
           => /\ ~call.thrown
              /\ fsm.current_state = S2

\* trigger<do_jump> in walk, which handles do_jump only since
\* add_transition<do_jump, jump> was called on it, entered jump.
C27_Witness ==
    /\ PlainTrigger
    /\ call.T = "do_jump"
    /\ S1 = "walk"
    /\ ~call.thrown
    /\ fsm.current_state = "jump"

\* trigger<do_jump> threw in walk, nothing delayed pending.
C27_WitnessThrow ==
    /\ PlainTrigger
    /\ call.T = "do_jump"
    /\ S1 = "walk"
    /\ call.thrown
    /\ Len(log) = 1

FsmEnterNames == {"on_enter", "on_enter_from"}
FsmExitNames == {"on_exit", "on_exit_to"}

\* The callback at position k of the log called trigger<T> for a transition
\* T its state has a target for, with no delayed trigger pending.
Retriggers(k) ==
    /\ log[k].did[1] = "trigger"
    /\ ~log[k].hd
    /\ call.before.states[log[k].s][log[k].did[2]] # count

\* The target of the trigger the callback at position k called.
RetriggerTarget(k) == call.before.states[log[k].s][log[k].did[2]]

\* From position j of the log on, trigger call number n set the state to
\* to, coming from from, and invoked the one enter callback of to, if any.
EntersAt(j, from, to, n) ==
    /\ Len(log) >= j
    /\ FsmShape[j] = <<"set_state", to, from>>
    /\ log[j].by = n
    /\ IF OneEnter(to, from) = <<>>
       THEN \A i \in FsmCallbacks : log[i].by = n => log[i].ev \in FsmExitNames
       ELSE /\ Len(log) > j
            /\ FsmShape[j + 1] = OneEnter(to, from)[1]
            /\ log[j + 1].by = n

\* The exit callback at position k called a trigger toward to: that trigger
\* invokes no exit callback and enters to from the state of the callback;
\* the trigger that invoked the callback neither sets the state nor enters
\* anything afterwards.
ExitRetriggerTakesOver(k, to) ==
    /\ Len(log) > k
    /\ log[k + 1].ev = "trigger"
    /\ log[k + 1].by > 0
    /\ \A i \in FsmCallbacks :
           log[i].by = log[k + 1].by => log[i].ev \notin FsmExitNames
    /\ EntersAt(k + 2, log[k].s, to, log[k + 1].by)
    /\ \A i \in (k + 1)..Len(log) :
           log[i].by = log[k].by
               => log[i].ev \notin FsmEnterNames \cup {"set_state"}

\* The enter callback at position k called a trigger toward to: that trigger
\* invokes the one exit callback of the state just entered, if any, and,
\* when this one returns, enters to.
EnterRetriggerRunsWhole(k, to) ==
    /\ Len(log) > k
    /\ log[k + 1].ev = "trigger"
    /\ log[k + 1].by > 0
    /\ IF OneExit(log[k].s, to) = <<>>
       THEN EntersAt(k + 2, log[k].s, to, log[k + 1].by)
       ELSE /\ Len(log) >= k + 2
            /\ FsmShape[k + 2] = OneExit(log[k].s, to)[1]
            /\ log[k + 2].by = log[k + 1].by
            /\ log[k + 2].did = Return
                   => EntersAt(k + 3, log[k].s, to, log[k + 1].by)

\* The positions of the log where the current state was set.
StateSet == {k \in 1..Len(log) : log[k].ev \in {"set_state", "init"}}

Updated == {k \in FsmCallbacks : log[k].ev = "on_update"}

\* The state the machine was in when the entry at position k of the log was
\* made.
RECURSIVE StateAt(_)
StateAt(k) ==
    IF k = 0 THEN call.before.current_state
    ELSE IF log[k].ev \in {"set_state", "init"} THEN log[k].s
    ELSE StateAt(k - 1)

\* C29: while a delayed trigger is pending, a call of trigger or of
\* delayed_trigger does nothing and does not throw.  An update() made while
\* one is pending, if it returns, first triggers the delayed transition,
\* then every delayed transition raised meanwhile, and then invokes
\* on_update once, on the state reached (if that state has an on_update
\* callback), with no delayed trigger pending.
C29_DelayedTriggerFirstComeFirstServed ==
    /\ call.op \in {"trigger", "delayed_trigger"}
       /\ call.before.has_delayed_trigger
           => /\ fsm = call.before
              /\ FsmCallbacks = {}
              /\ ~call.thrown
    /\ call.op = "update" /\ call.before.has_delayed_trigger /\ ~call.thrown
           => /\ log[1].ev = "trigger"
              /\ log[1].x = call.before.delayed_trigger_func
              /\ log[1].by = 1
              /\ Cardinality(Updated) <= 1
              /\ Updated = {} => ~fsm_func(fsm.current_state, "on_update")
              /\ \A u \in Updated :
                     /\ ~log[u].hd
                     /\ log[u].s = StateAt(u)
                     /\ \A j \in 1..u :
                            log[j].ev = "delayed_trigger" /\ ~log[j].hd
                                => \E i \in (j + 1)..u :
                                       /\ log[i].ev = "trigger"
                                       /\ log[i].by > 0
                                       /\ log[i].x = log[j].x

\* An update() with a delayed trigger pending made the delayed transition
\* from walk to run, then the one raised by the enter callback of run, back
\* to walk, and then invoked on_update of walk.
C29_Witness ==
    /\ call.op = "update"
    /\ call.before.has_delayed_trigger
    /\ ~call.thrown
    /\ \E j \in FsmCallbacks :
           /\ log[j].did[1] = "delayed_trigger"
           /\ ~log[j].hd
           /\ \E u \in Updated : u > j /\ log[u].s = "walk"

\* A trigger for a transition the current state does not handle was ignored
\* while a delayed trigger was pending.
C29_WitnessIgnored ==
    /\ call.op = "trigger"
    /\ call.before.has_delayed_trigger
    /\ call.before.current_state # count
    /\ S2 = count
    /\ fsm = call.before

\* C40: between the calls made on the flat machine, however the last one
\* ended, _in_on_exit is false.
C40_InOnExitFalseBetweenCalls == ~fsm.in_on_exit

====
